---- MODULE Spec2Model ----
(***************************************************************************)
(* Model of the WebX runtime actor (src/engine/runtime.rs), the route      *)
(* analyser (src/analysis/routes.rs) and the producers that feed the       *)
(* actor's mailbox (src/engine/filewatcher.rs, src/engine/server.rs).      *)
(***************************************************************************)
EXTENDS Integers, Sequences, FiniteSets, TLC

(***************************************************************************)
(* Bounds                                                                  *)
(***************************************************************************)
\* Total number of messages ever sent to the actor's mailbox.
MaxSends == 3

\* The same, in the runs that are checked for progress under fairness.
MaxFairSends == 2

(***************************************************************************)
(* Option values: None is the empty sequence, Some(x) a one-element one.   *)
(***************************************************************************)
None == <<>>
Some(x) == <<x>>

\* `let x = e;` followed by an expression that uses x: e is evaluated once.
Let(e, In(_)) == CHOOSE r \in {In(x) : x \in {e}} : TRUE

(***************************************************************************)
(* file/webx.rs: URL paths, routes, scopes, modules                        *)
(***************************************************************************)
Literal(s) == [kind |-> "Literal", name |-> s, arg |-> ""]
Parameter(n, t) == [kind |-> "Parameter", name |-> n, arg |-> t]
Regex(n, re) == [kind |-> "Regex", name |-> n, arg |-> re]

WXROOT_PATH == <<>>
combine(self, other) == self \o other
segments(self) == Len(self)

WXInfoField(p, l) == [path |-> p, line |-> l]

WXBody(t, b) == [body_type |-> t, body |-> b]

WXRouteHandler(n, a, o) == [name |-> n, args |-> a, output |-> o]

WXRoute(i, m, p, bf, pre, b, post) ==
    [info |-> i, method |-> m, path |-> p, body_format |-> bf,
     pre_handlers |-> pre, body |-> b, post_handlers |-> post]

WXScope(p, inc, ts, rs, ss) ==
    [path |-> p, includes |-> inc, global_ts |-> ts, routes |-> rs, scopes |-> ss]

WXModule(p, s) == [path |-> p, scope |-> s]

\* impl PartialEq / Hash for WXRoute: a route is identified by method and
\* its own (unflattened) path only.
WXRouteEq(r) == <<r.method, r.path>>

(***************************************************************************)
(* The module files of the project: two module paths, and the texts a     *)
(* file can hold (as parsed by parse_webx_file, which stamps every route   *)
(* with the path of the file it was read from).                            *)
(***************************************************************************)
ModulePaths == {"src/a.webx", "src/b.webx"}

\* The texts each file takes in the runs explored.
FileTexts(p) ==
    IF p = "src/a.webx" THEN {"counter", "nested"} ELSE {"flat", "getbody"}

\*  counter:  global { let n = 0; function count() { return ++n } }
\*            get /a -> count() (<p>a</p>)
\*  nested:   location /a { get /b (<p>nested</p>) }
\*  flat:     get /a/b (<p>flat</p>)
\*  getbody:  get /c json(x: Int) (<p>c</p>)
\* and, for the analyser alone:
\*  post:     post /c (<p>c</p>)
\*  postjson: post /c json(x: Int) (<p>c</p>)
\*  patchjson: patch /c json(x: Int) (<p>c</p>)
\*  sibling:  include "b.webx"       (in a.webx; "a.webx" in b.webx)
\*  absolute: include "/src/b.webx"  (in a.webx; "/src/a.webx" in b.webx)
parse_webx_file(p, text) ==
    CASE text = "counter" ->
            WXModule(p, WXScope(WXROOT_PATH, <<>>, "let n = 0; function count() { return ++n }",
                <<WXRoute(WXInfoField(p, 2), "GET", <<Literal("a")>>, None,
                          <<WXRouteHandler("count", <<>>, None)>>,
                          Some(WXBody("Tsx", "<p>a</p>")), <<>>)>>,
                <<>>))
      [] text = "nested" ->
            WXModule(p, WXScope(WXROOT_PATH, <<>>, "",
                <<>>,
                <<WXScope(<<Literal("a")>>, <<>>, "",
                    <<WXRoute(WXInfoField(p, 1), "GET", <<Literal("b")>>, None,
                              <<>>, Some(WXBody("Tsx", "<p>nested</p>")), <<>>)>>,
                    <<>>)>>))
      [] text = "flat" ->
            WXModule(p, WXScope(WXROOT_PATH, <<>>, "",
                <<WXRoute(WXInfoField(p, 1), "GET", <<Literal("a"), Literal("b")>>, None,
                          <<>>, Some(WXBody("Tsx", "<p>flat</p>")), <<>>)>>,
                <<>>))
      [] text = "getbody" ->
            WXModule(p, WXScope(WXROOT_PATH, <<>>, "",
                <<WXRoute(WXInfoField(p, 1), "GET", <<Literal("c")>>, Some("json(x: Int)"),
                          <<>>, Some(WXBody("Tsx", "<p>c</p>")), <<>>)>>,
                <<>>))
      [] text = "post" ->
            WXModule(p, WXScope(WXROOT_PATH, <<>>, "",
                <<WXRoute(WXInfoField(p, 1), "POST", <<Literal("c")>>, None,
                          <<>>, Some(WXBody("Tsx", "<p>c</p>")), <<>>)>>,
                <<>>))
      [] text = "postjson" ->
            WXModule(p, WXScope(WXROOT_PATH, <<>>, "",
                <<WXRoute(WXInfoField(p, 1), "POST", <<Literal("c")>>, Some("json(x: Int)"),
                          <<>>, Some(WXBody("Tsx", "<p>c</p>")), <<>>)>>,
                <<>>))
      [] text = "patchjson" ->
            WXModule(p, WXScope(WXROOT_PATH, <<>>, "",
                <<WXRoute(WXInfoField(p, 1), "PATCH", <<Literal("c")>>, Some("json(x: Int)"),
                          <<>>, Some(WXBody("Tsx", "<p>c</p>")), <<>>)>>,
                <<>>))
      [] text = "sibling" ->
            WXModule(p, WXScope(WXROOT_PATH,
                <<IF p = "src/a.webx" THEN "b.webx" ELSE "a.webx">>, "", <<>>, <<>>))
      [] text = "absolute" ->
            WXModule(p, WXScope(WXROOT_PATH,
                <<IF p = "src/a.webx" THEN "/src/b.webx" ELSE "/src/a.webx">>, "",
                <<>>, <<>>))

Modules == UNION {{parse_webx_file(p, t) : t \in FileTexts(p)} : p \in ModulePaths}

\* The module sets handed to the analyser: up to two files with any of the
\* texts above.
AnalysedTexts ==
    {"counter", "nested", "flat", "getbody", "post", "postjson", "patchjson",
     "sibling", "absolute"}

AnalysedProjects ==
    LET files == {parse_webx_file(p, t) : p \in ModulePaths, t \in AnalysedTexts}
    IN  {<<>>} \cup {<<f>> : f \in files} \cup {<<f, g>> : f \in files, g \in files}

(***************************************************************************)
(* Sequence helpers                                                        *)
(***************************************************************************)
RECURSIVE Concat(_)
Concat(ss) == IF ss = <<>> THEN <<>> ELSE Head(ss) \o Concat(Tail(ss))

(***************************************************************************)
(* analysis/routes.rs                                                      *)
(***************************************************************************)
\* The entries flatten_scopes offers to the FlatRoutes map, in the order it
\* visits them: the scope's own routes, then each nested scope.
RECURSIVE flatten_scopes(_, _)
flatten_scopes(scope, path_prefix) ==
    [i \in 1..Len(scope.routes) |->
        [route |-> scope.routes[i],
         flat_path |-> combine(path_prefix, scope.routes[i].path)]]
    \o Concat([i \in 1..Len(scope.scopes) |->
        flatten_scopes(scope.scopes[i], combine(path_prefix, scope.scopes[i].path))])

\* Key of the FlatRoutes map: (WXRoute, WXUrlPath), with WXRoute's equality.
FlatKey(e) == <<WXRouteEq(e.route), e.flat_path>>

\* FlatRoutes: key -> the route of the first entry with that key (the key the
\* map keeps), the flattened path, and the locations of all such entries.
extract_flat_routes(modules) ==
    Let(Concat([i \in 1..Len(modules) |->
                    flatten_scopes(modules[i].scope, WXROOT_PATH)]),
        LAMBDA entries :
            [k \in {FlatKey(entries[i]) : i \in 1..Len(entries)} |->
                Let(SelectSeq(entries, LAMBDA e : FlatKey(e) = k),
                    LAMBDA of :
                        [route |-> of[1].route,
                         flat_path |-> of[1].flat_path,
                         infos |-> [i \in 1..Len(of) |-> of[i].route.info]])])

extract_duplicate_routes(routes) ==
    {k \in DOMAIN routes : Len(routes[k].infos) > 1}

ERROR_DUPLICATE_ROUTE == 6
ERROR_INVALID_ROUTE == 7

Ok(v) == [tag |-> "Ok", code |-> 0, value |-> v]
Err(c) == [tag |-> "Err", code |-> c, value |-> <<>>]
Panic == [tag |-> "Panic", code |-> 0, value |-> <<>>]

analyze_duplicate_routes(modules) ==
    Let(extract_flat_routes(modules),
        LAMBDA routes :
            IF extract_duplicate_routes(routes) # {}
            THEN Err(ERROR_DUPLICATE_ROUTE)
            ELSE Ok(routes))

\* A filter that knows the rule for GET and DELETE alone
extract_invalid_routes_get_delete_only(routes) ==
    {k \in DOMAIN routes :
        routes[k].route.method \in {"GET", "DELETE"} /\ routes[k].route.body_format # None}

\* The routes the filter of extract_invalid_routes keeps.
extract_invalid_routes(routes) ==
    {k \in DOMAIN routes :
        CASE routes[k].route.method \in {"GET", "DELETE"} ->
                routes[k].route.body_format # None
          [] routes[k].route.method \in {"POST", "PUT"} ->
                routes[k].route.body_format = None
          [] OTHER -> FALSE}

\* Formatting the message unwraps body_format of every invalid route, which
\* panics for a POST or PUT route without one.
analyze_invalid_routes(modules) ==
    Let(extract_flat_routes(modules),
        LAMBDA routes :
            Let(extract_invalid_routes(routes),
                LAMBDA invalid :
                    IF \E k \in invalid : routes[k].route.body_format = None
                    THEN Panic
                    ELSE IF invalid # {} THEN Err(ERROR_INVALID_ROUTE)
                    ELSE Ok(<<>>)))

verify_model_routes(modules) ==
    Let(analyze_duplicate_routes(modules),
        LAMBDA routes :
            IF routes.tag # "Ok" THEN routes
            ELSE Let(analyze_invalid_routes(modules),
                     LAMBDA invalid : IF invalid.tag # "Ok" THEN invalid ELSE routes))

(***************************************************************************)
(* analysis/dependencies.rs                                                *)
(***************************************************************************)
\* Paths as PathBuf holds them, by component.  Module paths are canonical
\* (the project directory is taken to be /); include strings are as written.
PathBuf_from(s) ==
    CASE s = "src/a.webx" -> <<"/", "src", "a.webx">>
      [] s = "src/b.webx" -> <<"/", "src", "b.webx">>
      [] s = "/src/a.webx" -> <<"/", "src", "a.webx">>
      [] s = "/src/b.webx" -> <<"/", "src", "b.webx">>
      [] s = "a.webx" -> <<"a.webx">>
      [] s = "b.webx" -> <<"b.webx">>

\* PathBuf::join: an absolute path replaces self, a relative one is appended.
join(self, path) == IF path[1] = "/" THEN path ELSE self \o path

\* DependencyTree: include target -> the files that include it (the Vec of
\* including files is held as the set of its elements).
construct_dependency_tree(files) ==
    Let(Concat([i \in 1..Len(files) |->
            [j \in 1..Len(files[i].scope.includes) |->
                [dependency_target |->
                    join(PathBuf_from(files[i].path),
                         PathBuf_from(files[i].scope.includes[j])),
                 file |-> PathBuf_from(files[i].path)]]]),
        LAMBDA entries :
            [target \in {entries[i].dependency_target : i \in 1..Len(entries)} |->
                {entries[i].file : i \in {n \in 1..Len(entries) :
                                            entries[n].dependency_target = target}}])

\* The elements of the Vec returned (it lists them in the map's iteration
\* order).
detect_circular_dependencies(tree) ==
    {dependent \in UNION {tree[k] : k \in DOMAIN tree} : dependent \in DOMAIN tree}

ERROR_CIRCULAR_DEPENDENCY == 3

\* analyse_circle_dependencies: exit_error when the list is not empty.
analyse_module_deps(modules) ==
    IF detect_circular_dependencies(construct_dependency_tree(modules)) # {}
    THEN Err(ERROR_CIRCULAR_DEPENDENCY)
    ELSE Ok(<<>>)

(***************************************************************************)
(* engine/runtime.rs: runtime values and contexts                          *)
(***************************************************************************)
WXRTString(s) == [type |-> "String", str |-> s, num |-> 0]
WXRTNumber(n) == [type |-> "Number", str |-> "", num |-> n]
WXRTNull == [type |-> "Null", str |-> "", num |-> 0]

to_raw(v) ==
    CASE v.type = "String" -> v.str
      [] v.type = "Number" -> ToString(v.num)
      [] v.type = "Null" -> "null"

WXRTContext_new == [k \in {} |-> WXRTNull]

\* A bind that leaves the context as it is
bind_nothing(ctx, ident, value) == ctx

bind(ctx, ident, value) ==
    [k \in DOMAIN ctx \cup {ident} |-> IF k = ident THEN value ELSE ctx[k]]

(***************************************************************************)
(* engine/runtime.rs: WXUrlPath::matches                                   *)
(***************************************************************************)
\* Request URIs are held as the result of path.split('/'): "/a/b" is
\* <<"", "a", "b">> and "/" is <<"", "">>.
\* get_url_segments without the filter of empty tokens
get_url_segments_keeping_empty(url) == Tail(url)

get_url_segments(url) == SelectSeq(Tail(url), LAMBDA s : s # "")

\* regex::Regex::new: the pattern the parser generates for a `*` segment,
\* "*", is a repetition operator without an operand and does not compile.
Regex_new(re) == IF re = "*" THEN Err(0) ELSE Ok(re)

\* Regex::is_match for the patterns that compile.
is_match(re, part) ==
    CASE re = ".*" -> TRUE
      [] re = ".+" -> part # ""
      [] OTHER -> FALSE

\* The closure match_segment: the outcome for one (pattern, part) pair and
\* the bindings it leaves behind.
match_segment(pattern, part, bindings) ==
    CASE pattern.kind = "Literal" ->
            [res |-> IF pattern.name = part THEN "true" ELSE "false",
             bindings |-> bindings]
      [] pattern.kind = "Parameter" ->
            [res |-> "true",
             bindings |-> bind(bindings, pattern.name, WXRTString(part))]
      [] pattern.kind = "Regex" ->
            IF Regex_new(pattern.arg).tag # "Ok"
            THEN [res |-> "panic", bindings |-> bindings]
            ELSE IF is_match(pattern.arg, part)
                 THEN [res |-> "true",
                       bindings |-> bind(bindings, pattern.name, WXRTString(part))]
                 ELSE [res |-> "false", bindings |-> bindings]

\* Iterator::all over the zipped (pattern, part) pairs from position i on:
\* stops at the first pair that does not match.
RECURSIVE all_match_segment(_, _, _, _)
all_match_segment(pat, parts, i, bindings) ==
    IF i > Len(pat) \/ i > Len(parts)
    THEN [res |-> "true", bindings |-> bindings]
    ELSE LET m == match_segment(pat[i], parts[i], bindings)
         IN  IF m.res = "true"
             THEN all_match_segment(pat, parts, i + 1, m.bindings)
             ELSE m

\* matches without the test `url_count == self.segments() - 1`
matches_any_longer_pattern(self, uri) ==
    LET url == get_url_segments(uri)
        url_count == Len(url)
        padded == url \o [i \in 1..(segments(self) - url_count) |-> ""]
        a == all_match_segment(self, padded, 1, WXRTContext_new)
    IN  IF segments(self) < url_count
        THEN [kind |-> "None", bindings |-> WXRTContext_new]
        ELSE CASE a.res = "panic" -> [kind |-> "Panic", bindings |-> WXRTContext_new]
               [] a.res = "true" ->
                    [kind |-> IF segments(self) = url_count THEN "Perfect" ELSE "Partial",
                     bindings |-> a.bindings]
               [] OTHER -> [kind |-> "None", bindings |-> WXRTContext_new]

matches(self, uri) ==
    LET url == get_url_segments(uri)
        url_count == Len(url)
        padded == url \o [i \in 1..(segments(self) - url_count) |-> ""]
    IN  IF segments(self) = url_count
        THEN LET a == all_match_segment(self, url, 1, WXRTContext_new)
             IN  CASE a.res = "true" -> [kind |-> "Perfect", bindings |-> a.bindings]
                   [] a.res = "panic" -> [kind |-> "Panic", bindings |-> WXRTContext_new]
                   [] OTHER -> [kind |-> "None", bindings |-> WXRTContext_new]
        ELSE IF segments(self) > url_count
        THEN LET a == all_match_segment(self, padded, 1, WXRTContext_new)
             IN  CASE a.res = "panic" -> [kind |-> "Panic", bindings |-> WXRTContext_new]
                   [] a.res = "true" /\ url_count = segments(self) - 1 ->
                        [kind |-> "Partial", bindings |-> a.bindings]
                   [] OTHER -> [kind |-> "None", bindings |-> WXRTContext_new]
        ELSE [kind |-> "None", bindings |-> WXRTContext_new]

(***************************************************************************)
(* engine/runtime.rs: WXRouteMap                                           *)
(***************************************************************************)
\* The route map Method -> (UrlPath -> WXRTRoute) is held as a function on
\* the pairs <<method, path>>.
WXRouteMap_new == [k \in {} |-> <<>>]

compile_route(route, module_path) ==
    [module_path |-> module_path,
     body |-> route.body,
     pre_handlers |-> route.pre_handlers,
     post_handlers |-> route.post_handlers]

\* from_modules: the analyser's verdict, and on success the maps the insert
\* loop can produce.  The loop walks the FlatRoutes hash map in its iteration
\* order and inserts under (method, flattened path), so of several entries
\* with the same method and flattened path the one visited last stays.
from_modules(modules) ==
    Let(verify_model_routes(modules),
        LAMBDA v :
            LET routes == v.value
                MapKey(k) == <<routes[k].route.method, routes[k].flat_path>>
                mapKeys == {MapKey(k) : k \in DOMAIN routes}
                lastVisited == {f \in [mapKeys -> DOMAIN routes] :
                                    \A mk \in mapKeys : MapKey(f[mk]) = mk}
            IN  IF v.tag # "Ok" THEN {v}
                ELSE {Ok([mk \in mapKeys |->
                            compile_route(routes[f[mk]].route,
                                          routes[f[mk]].route.info.path)])
                      : f \in lastVisited})

\* The orders in which resolve can walk the routes of one method: the hash
\* map's iteration order, stably sorted by descending segment count.
SortedOrders(paths) ==
    {o \in [1..Cardinality(paths) -> paths] :
        /\ \A i, j \in 1..Cardinality(paths) : i # j => o[i] # o[j]
        /\ \A i, j \in 1..Cardinality(paths) :
                i < j => segments(o[i]) >= segments(o[j])}

NoMatch == [tag |-> "None", path |-> <<>>, ctx |-> WXRTContext_new, route |-> None]

\* The for loop of resolve from position i on, with the best match so far.
RECURSIVE resolve_loop(_, _, _, _, _, _)
resolve_loop(self, method, order, i, path, best_match) ==
    IF i > Len(order) THEN best_match
    ELSE LET m == matches(order[i], path)
             found == [tag |-> "Some", path |-> order[i], ctx |-> m.bindings,
                       route |-> Some(self[<<method, order[i]>>])]
         IN  CASE m.kind = "None" ->
                    resolve_loop(self, method, order, i + 1, path, best_match)
               [] m.kind = "Perfect" -> found
               [] m.kind = "Partial" ->
                    resolve_loop(self, method, order, i + 1, path, found)
               [] m.kind = "Panic" ->
                    [tag |-> "Panic", path |-> <<>>, ctx |-> WXRTContext_new, route |-> None]

\* The results resolve can return for a request.
resolve(self, method, path) ==
    LET paths == {k[2] : k \in {kk \in DOMAIN self : kk[1] = method}}
    IN  IF paths = {} THEN {NoMatch}
        ELSE {resolve_loop(self, method, o, 1, path, NoMatch) : o \in SortedOrders(paths)}

(***************************************************************************)
(* The script host (deno_core::JsRuntime) of a module.  An instance has an *)
(* identity, the functions its scripts have defined and the value of the   *)
(* global counter n ("let n = 0") the module texts above declare (-1 while *)
(* undeclared).                                                            *)
(***************************************************************************)
JsRuntime_new(id) == [id |-> id, fns |-> {}, n |-> -1]

\* rt.execute_script("[webx global scope]", ts)
execute_global(rt, ts) ==
    CASE ts = "let n = 0; function count() { return ++n }" ->
            [rt |-> [rt EXCEPT !.fns = @ \cup {"count"}, !.n = 0], res |-> Ok(WXRTNull)]
      [] ts = "let n = 0; function count() { return ++n }; function id(x) { return x }" ->
            [rt |-> [rt EXCEPT !.fns = @ \cup {"count", "id"}, !.n = 0],
             res |-> Ok(WXRTNull)]
      [] OTHER -> [rt |-> rt, res |-> Ok(WXRTNull)]

(***************************************************************************)
(* engine/runtime.rs: handler calls and the route pipeline                 *)
(***************************************************************************)
LitString(s) == [kind |-> "String", str |-> s]
LitIdentifier(s) == [kind |-> "Identifier", str |-> s]

\* WXRuntimeError { code, message } as the Err of a Result
WXRuntimeError(code, message) == [tag |-> "Err", code |-> code, value |-> message]

eval_literal(literal, ctx) ==
    CASE literal.kind = "String" -> Ok(WXRTString(literal.str))
      [] literal.kind = "Identifier" ->
            IF literal.str \in DOMAIN ctx THEN Ok(ctx[literal.str])
            ELSE WXRuntimeError(500, "Identifier not found in context")

ERROR_HANDLER_CALL == 8

\* The files below the project root that the `static` intrinsic can read.
StaticFiles == {"index.html"}

\* stdlib::try_call: None for a name that is not native.
try_call(name, args) ==
    IF name = "static"
    THEN IF Len(args) # 1
         THEN Some(WXRuntimeError(ERROR_HANDLER_CALL, "static: expected 1 arguments"))
         ELSE IF args[1].type = "String" /\ args[1].str \in StaticFiles
              THEN Some(Ok(WXRTString(args[1].str)))
              ELSE Some(WXRuntimeError(ERROR_HANDLER_CALL, "static: failed to read file"))
    ELSE None

\* rt.execute_script("[webx handler code]", "name(args)")
execute_call(rt, name, args) ==
    IF name \notin rt.fns
    THEN [rt |-> rt, res |-> WXRuntimeError(500, "Handler threw an error")]
    ELSE CASE name = "count" ->
                [rt |-> [rt EXCEPT !.n = @ + 1], res |-> Ok(WXRTNumber(rt.n + 1))]
           [] name = "id" ->
                [rt |-> rt, res |-> Ok(IF args = <<>> THEN WXRTNull ELSE args[1])]
           [] OTHER -> [rt |-> rt, res |-> Ok(WXRTNull)]

\* WXRTHandlerCall::execute once the arguments are evaluated: the native
\* function of that name, or else the script's.
call_native_or_js(name, rt, args, native) ==
    IF native # None THEN [rt |-> rt, res |-> native[1]]
    ELSE execute_call(rt, name, args)

\* WXRTHandlerCall::execute on the evaluated argument literals: the first
\* failed literal is the error (`collect::<Result<Vec<_>, _>>()?`).
call_with_args(self, rt, args, failed) ==
    IF failed # {}
    THEN [rt |-> rt, res |-> args[CHOOSE i \in failed : \A j \in failed : i <= j]]
    ELSE call_native_or_js(self.name, rt, [i \in 1..Len(args) |-> args[i].value],
            try_call(self.name, [i \in 1..Len(args) |-> args[i].value]))

\* The argument literals of a call that do not evaluate in the context.
failed_args(self, ctx) ==
    {i \in 1..Len(self.args) : eval_literal(self.args[i], ctx).tag = "Err"}

\* WXRTHandlerCall::execute
handler_execute(self, ctx, rt) ==
    call_with_args(self, rt,
        [i \in 1..Len(self.args) |-> eval_literal(self.args[i], ctx)],
        failed_args(self, ctx))

\* WXRTRoute::execute_body
execute_body(self) ==
    IF self.body[1].body_type = "Ts" THEN Panic
    ELSE Ok(WXRTString(self.body[1].body))

\* One executed step of a pipeline, as a record of what ran: the handler call
\* or the body, the context it ran in and what it produced.
HandlerStep(handler, ctx, res) ==
    [step |-> "handler", handler |-> Some(handler), ctx |-> ctx, res |-> res]

BodyStep(ctx, res) == [step |-> "body", handler |-> None, ctx |-> ctx, res |-> res]

\* A for loop over handlers[i..last]: execute each, bind its result under its
\* output name, stop at the first error.
RECURSIVE run_handlers(_, _, _, _, _, _)
RECURSIVE bind_and_continue(_, _, _, _, _, _)
\* The loop body after handlers[i] returned r: `?` on an error, else bind the
\* result under the output name and go on with the next handler.
bind_and_continue(handlers, i, last, ctx, ran, r) ==
    IF r.res.tag = "Err"
    THEN [tag |-> "Err", ctx |-> ctx, rt |-> r.rt, log |-> ran, err |-> Some(r.res)]
    ELSE run_handlers(handlers, i + 1, last,
            IF handlers[i].output # None
            THEN bind(ctx, handlers[i].output[1], r.res.value) ELSE ctx,
            r.rt, ran)

run_handlers(handlers, i, last, ctx, rt, log) ==
    IF i > last THEN [tag |-> "Ok", ctx |-> ctx, rt |-> rt, log |-> log, err |-> None]
    ELSE bind_and_continue(handlers, i, last, ctx,
            Append(log, HandlerStep(handlers[i], ctx,
                                    handler_execute(handlers[i], ctx, rt).res)),
            handler_execute(handlers[i], ctx, rt))

\* The body of an http::Response<String>, held as the fragments it is put
\* together from: the text of the page and the values formatted into it.
format(template, values) == <<template>> \o values

CARGO_PKG_VERSION == "0.1.0"

WXModes == {"Dev", "Prod"}

is_dev(mode) == mode = "Dev"

ok_html(body) ==
    [status |-> 200, content_type |-> "text/html; charset=utf-8", body |-> <<body>>]

\* A 500 page that shows the message in every mode
internal_server_error_with_message(mode, message) ==
    [status |-> 500, content_type |-> "text/html; charset=utf-8",
     body |-> format("500 Internal Server Error, Debugging Information",
                     <<message, CARGO_PKG_VERSION>>)]

internal_server_error_default_webx(mode, message) ==
    [status |-> 500, content_type |-> "text/html; charset=utf-8",
     body |-> IF is_dev(mode)
              THEN format("500 Internal Server Error, Debugging Information",
                          <<message, CARGO_PKG_VERSION>>)
              ELSE format("500 Internal Server Error", <<>>)]

not_found_default_webx(mode) ==
    [status |-> 404, content_type |-> "text/html; charset=utf-8",
     body |-> IF is_dev(mode)
              THEN format("404 Not Found, The requested URL was not found on this server.",
                          <<CARGO_PKG_VERSION>>)
              ELSE format("404 Not Found, The requested URL was not found on this server.",
                          <<>>)]

\* The results of WXRTRoute::execute: Ok(response), Err(error) or a panic,
\* with the script host, the context and the steps that ran.
RtOk(resp, rt, ctx, log) ==
    [tag |-> "Ok", response |-> Some(resp), err |-> None, rt |-> rt, ctx |-> ctx,
     log |-> log]

RtErr(err, rt, ctx, log) ==
    [tag |-> "Err", response |-> None, err |-> Some(err), rt |-> rt, ctx |-> ctx,
     log |-> log]

RtPanic(rt, ctx, log) ==
    [tag |-> "Panic", response |-> None, err |-> None, rt |-> rt, ctx |-> ctx,
     log |-> log]

\* What the last call of a list returned, as the result of the route: `?`
\* on an error, else ok_html of the raw value.
last_result(handler, ctx, log, r) ==
    IF r.res.tag = "Err"
    THEN RtErr(r.res, r.rt, ctx, Append(log, HandlerStep(handler, ctx, r.res)))
    ELSE RtOk(ok_html(to_raw(r.res.value)), r.rt, ctx,
              Append(log, HandlerStep(handler, ctx, r.res)))

\* A last call that returns the result of the first handler of the list
last_handler_taking_first(handlers, ctx, rt, log) ==
    last_result(handlers[1], ctx, log, handler_execute(handlers[1], ctx, rt))

\* The last call of a handler list: its result is the response.
last_handler(handlers, ctx, rt, log) ==
    last_result(handlers[Len(handlers)], ctx, log,
                handler_execute(handlers[Len(handlers)], ctx, rt))

\* The end of a handler list after the loop over all but the last returned h.
finish_handlers(handlers, h) ==
    IF h.tag = "Err" THEN RtErr(h.err[1], h.rt, h.ctx, h.log)
    ELSE last_handler(handlers, h.ctx, h.rt, h.log)

\* The arm with a body, after the loop over the pre handlers returned pre
\* and with what execute_body returns.
body_and_post(self, pre, body) ==
    IF pre.tag = "Err" THEN RtErr(pre.err[1], pre.rt, pre.ctx, pre.log)
    ELSE IF body.tag = "Panic" THEN RtPanic(pre.rt, pre.ctx, pre.log)
    ELSE IF self.post_handlers = <<>>
    THEN RtOk(ok_html(to_raw(body.value)), pre.rt, pre.ctx,
              Append(pre.log, BodyStep(pre.ctx, body)))
    ELSE finish_handlers(self.post_handlers,
            run_handlers(self.post_handlers, 1, Len(self.post_handlers) - 1,
                         pre.ctx, pre.rt, Append(pre.log, BodyStep(pre.ctx, body))))

\* WXRTRoute::execute
route_execute(self, ctx, rt) ==
    IF self.pre_handlers = <<>> /\ self.body = None /\ self.post_handlers = <<>>
    THEN RtErr(WXRuntimeError(500, "Route is empty"), rt, ctx, <<>>)
    ELSE IF self.pre_handlers = <<>> /\ self.body # None /\ self.post_handlers = <<>>
    THEN IF execute_body(self).tag = "Panic" THEN RtPanic(rt, ctx, <<>>)
         ELSE RtOk(ok_html(to_raw(execute_body(self).value)), rt, ctx,
                   <<BodyStep(ctx, execute_body(self))>>)
    ELSE IF self.body = None
    THEN finish_handlers(self.pre_handlers \o self.post_handlers,
            run_handlers(self.pre_handlers \o self.post_handlers, 1,
                         Len(self.pre_handlers) + Len(self.post_handlers) - 1,
                         ctx, rt, <<>>))
    ELSE body_and_post(self,
            run_handlers(self.pre_handlers, 1, Len(self.pre_handlers), ctx, rt, <<>>),
            execute_body(self))

(***************************************************************************)
(* engine/filewatcher.rs: FSWEvent                                         *)
(***************************************************************************)
EPSILON == 100

FSWEvent_new(kind, path, instant) ==
    [kind |-> kind, path |-> path, timestamp |-> instant, is_empty_state |-> FALSE]

FSWEvent_empty(instant) ==
    [kind |-> "Any", path |-> "", timestamp |-> instant, is_empty_state |-> TRUE]

is_duplicate(self, earlier) ==
    IF self.is_empty_state \/ earlier.is_empty_state THEN FALSE
    ELSE /\ self.kind = earlier.kind
         /\ self.path = earlier.path
         /\ self.timestamp - earlier.timestamp < EPSILON

(***************************************************************************)
(* engine/runtime.rs: the runtime actor WXRuntime                          *)
(***************************************************************************)
VARIABLES
    pc,              \* where the actor thread is: "new", "loaded", "loop",
                     \* "stopped" (left the loop) or "panicked" (unwound)
    running,         \* the process-wide AtomicBool
    source_modules,  \* WXRuntime.source_modules
    runtimes,        \* WXRuntime.runtimes: module path -> script host
    routes,          \* WXRuntime.routes
    next_host,       \* identity given to the next JsRuntime instance
    mailbox,         \* the mpsc channel WXRuntime.messages receives from
    tasks,           \* per-request tasks of the server, by send number
    sent,            \* number of messages sent so far
    mut_sent,        \* number of New/Swap/Remove messages queued so far
    handled,         \* number of messages the actor has taken from the mailbox
    applied,         \* number of New/Swap/Remove messages the actor has taken
    last,            \* the message the actor took most recently
    server_pc,       \* the accept loop of WXServer::run_async: "accepting" or
                     \* "returned"
    watcher_pc,      \* the loop of WXFileWatcher::run: "watching" or "returned"
    budget,          \* how many messages the senders send in this run
    input,           \* the arguments of the function under analysis
    output,          \* what it returned, once applied
    now,             \* the clock read by Instant::now(), in milliseconds
    last_event,      \* last_event of the file watcher's callback
    observed,        \* the file events the callback has been called with
    runner_pc,       \* where runner::run is: "loaded" (load_modules returned),
                     \* "deps", "routes" (that analysis returned), "spawned"
                     \* (the runtime thread runs) or "exited"
    exit_code        \* the code the process exited with, if it did

vars == <<pc, running, source_modules, runtimes, routes, next_host,
          mailbox, tasks, sent, mut_sent, handled, applied, last,
          server_pc, watcher_pc, budget, input, output,
          now, last_event, observed, runner_pc, exit_code>>

\* The fields of WXRuntime the message handlers read and write.
Self ==
    [source_modules |-> source_modules, runtimes |-> runtimes,
     routes |-> routes, next_host |-> next_host]

Become(S) ==
    /\ source_modules' = S.source_modules
    /\ runtimes' = S.runtimes
    /\ routes' = S.routes
    /\ next_host' = S.next_host

\* HashMap::insert and HashMap::remove on WXRuntime.runtimes
insert(map, key, value) ==
    [k \in DOMAIN map \cup {key} |-> IF k = key THEN value ELSE map[k]]

remove(map, key) == [k \in DOMAIN map \ {key} |-> map[k]]

\* initialize_module_runtime: evaluate the module's global script in its
\* host, when it has one; a script error is only logged.
initialize_module_runtime(S, module) ==
    IF module.path \in DOMAIN S.runtimes
    THEN [S EXCEPT !.runtimes[module.path] =
                execute_global(@, module.scope.global_ts).rt]
    ELSE S

load_module(S, module) ==
    LET created == [S EXCEPT
                        !.runtimes = insert(@, module.path, JsRuntime_new(S.next_host)),
                        !.next_host = @ + 1]
        initialized == initialize_module_runtime(created, module)
    IN  [initialized EXCEPT !.source_modules = Append(@, module)]

RECURSIVE load_modules(_, _)
load_modules(S, modules) ==
    IF modules = <<>> THEN S
    ELSE load_modules(load_module(S, Head(modules)), Tail(modules))

\* remove_module without `self.runtimes.remove(module_path)`
remove_module_keeping_host(S, module_path) ==
    [S EXCEPT !.source_modules = SelectSeq(@, LAMBDA m : m.path # module_path)]

remove_module(S, module_path) ==
    [S EXCEPT !.runtimes = remove(@, module_path),
              !.source_modules = SelectSeq(@, LAMBDA m : m.path # module_path)]

\* recompile: the states it can leave the runtime in.  An analyser error is
\* logged (error_code does not exit) and the route map is kept.
recompile(S) ==
    {[tag |-> IF r.tag = "Panic" THEN "Panic" ELSE "Ok",
      st |-> IF r.tag = "Ok" THEN [S EXCEPT !.routes = r.value] ELSE S]
     : r \in from_modules(S.source_modules)}

\* The arms of the match in run, up to the recompile.
new_arm(S, module) == recompile(load_module(S, module))

\* The Swap arm with `self.runtimes.clear()` for the removal of the one host
swap_arm_clearing_hosts(S, path, module) ==
    recompile([S EXCEPT
        !.runtimes = [k \in {} |-> JsRuntime_new(0)],
        !.source_modules = Append(SelectSeq(@, LAMBDA m : m.path # path), module)])

swap_arm(S, path, module) ==
    LET removed == remove_module(S, path)
    IN  recompile([removed EXCEPT !.source_modules = Append(@, module)])

\* The Remove arm without its `self.recompile()`
remove_arm_without_recompile(S, path) ==
    {[tag |-> "Ok", st |-> remove_module(S, path)]}

remove_arm(S, path) == recompile(remove_module(S, path))

\* execute_route once the route returned r: the script host is kept as the
\* route left it, Ok is the response, Err becomes the 500 page.
route_outcome(S, m, mode, r) ==
    [tag |-> IF r.tag = "Panic" THEN "Panic" ELSE "Ok",
     response |->
        CASE r.tag = "Ok" -> r.response
          [] r.tag = "Err" -> Some(internal_server_error_default_webx(mode, r.err[1].value))
          [] OTHER -> None,
     st |-> [S EXCEPT !.runtimes[m.route[1].module_path] = r.rt],
     route |-> Some([route |-> m.route[1], ctx |-> m.ctx, result |-> r])]

\* execute_route: the outcomes for a request.  The result is always
\* Ok(response); the function panics when the matcher panics, when the
\* route's module has no script host, or when the pipeline panics.
execute_route(S, req, mode) ==
    {CASE m.tag = "Panic" ->
            [tag |-> "Panic", response |-> None, st |-> S, route |-> None]
       [] m.tag = "None" ->
            [tag |-> "Ok", response |-> Some(not_found_default_webx(mode)), st |-> S,
             route |-> None]
       [] m.tag = "Some" ->
            IF m.route[1].module_path \notin DOMAIN S.runtimes
            THEN [tag |-> "Panic", response |-> None, st |-> S, route |-> None]
            ELSE route_outcome(S, m, mode,
                    route_execute(m.route[1], m.ctx, S.runtimes[m.route[1].module_path]))
     : m \in resolve(S.routes, req.method, req.uri)}

(***************************************************************************)
(* Messages, requests and the projects the process can be started on       *)
(***************************************************************************)
Requests ==
    {[method |-> "GET", uri |-> <<"", "a">>],
     [method |-> "GET", uri |-> <<"", "a", "b">>]}

\* Module sets load_modules can return that pass the startup analysis.
StartupProjects ==
    {<<>>,
     <<parse_webx_file("src/a.webx", "counter")>>,
     <<parse_webx_file("src/a.webx", "counter"), parse_webx_file("src/b.webx", "flat")>>}

Msg(type, path, module, request) ==
    [type |-> type, path |-> path, module |-> module, request |-> request,
     seq |-> sent + 1, mut_before |-> mut_sent]

NoTask == [state |-> "none", status |-> 0]

NoMessage == [type |-> "none", path |-> "", seq |-> 0, mut_before |-> 0]

Taken(msg) ==
    [type |-> msg.type, path |-> msg.path, seq |-> msg.seq, mut_before |-> msg.mut_before]

\* Whether the Receiver end of the mailbox still exists.
Connected == pc \notin {"stopped", "panicked"}

\* A receive that hands out the newest queued message first
recv_newest(q) == [msg |-> q[Len(q)], rest |-> SubSeq(q, 1, Len(q) - 1)]

\* mpsc::Receiver::recv_timeout on a non-empty channel
recv(q) == [msg |-> Head(q), rest |-> Tail(q)]

\* A stop of the actor that keeps the queued reply senders alive
Disconnected_keeping_senders(ts) == ts

\* Dropping the Receiver drops the queued messages and with them their reply
\* senders: every task still waiting sees its reply channel closed.
Disconnected(ts) ==
    [s \in DOMAIN ts |->
        IF ts[s].state = "waiting" THEN [state |-> "failed", status |-> 500] ELSE ts[s]]

\* The state in which runner::run is at `at`, the accept loop at `server`.
InitAt(at, server, sends, inputs) ==
    /\ runner_pc = at
    /\ exit_code = None
    /\ pc = "new"
    /\ running = TRUE
    /\ source_modules = <<>>
    /\ runtimes = [k \in {} |-> JsRuntime_new(0)]
    /\ routes = WXRouteMap_new
    /\ next_host = 1
    /\ mailbox = <<>>
    /\ tasks = [s \in 1..MaxSends |-> NoTask]
    /\ sent = 0
    /\ mut_sent = 0
    /\ handled = 0
    /\ applied = 0
    /\ last = NoMessage
    /\ server_pc = server
    /\ watcher_pc = "watching"
    /\ budget = sends
    /\ input \in inputs
    /\ output = None
    /\ now = 0
    /\ last_event = FSWEvent_empty(0)
    /\ observed = <<>>

\* The threads of the process are started: runner::run has spawned the runtime
\* thread and the server accepts connections.
InitWith(sends, inputs) == InitAt("spawned", "accepting", sends, inputs)

Init == InitWith(MaxSends, {None})

\* What the actor and the senders leave alone: the loops of the other
\* threads, and the function under analysis.
UnchangedLoops ==
    UNCHANGED <<server_pc, watcher_pc, budget, input, output, now, last_event, observed,
                runner_pc, exit_code>>

UnchangedChannel == UNCHANGED <<mailbox, tasks, sent, mut_sent, handled, applied, last>>

\* runner: runtime.load_modules(webx_modules)
LoadModules ==
    /\ pc = "new"
    /\ \E project \in StartupProjects : Become(load_modules(Self, project))
    /\ pc' = "loaded"
    /\ UNCHANGED running
    /\ UnchangedChannel
    /\ UnchangedLoops

\* A panic unwinds the actor thread and drops the runtime with its Receiver.
Unwind ==
    /\ pc' = "panicked"
    /\ mailbox' = <<>>
    /\ tasks' = Disconnected(tasks)

\* WXRuntime::run entering the loop without the recompile before it
RunWithoutRecompile ==
    /\ pc = "loaded"
    /\ pc' = "loop"
    /\ UNCHANGED <<source_modules, runtimes, routes, next_host, mailbox, tasks>>
    /\ UNCHANGED <<running, sent, mut_sent, handled, applied, last>>
    /\ UnchangedLoops

\* WXRuntime::run: the recompile before the loop
RunRecompile ==
    /\ pc = "loaded"
    /\ \E r \in recompile(Self) :
        /\ Become(r.st)
        /\ IF r.tag = "Panic" THEN Unwind
           ELSE pc' = "loop" /\ UNCHANGED <<mailbox, tasks>>
    /\ UNCHANGED <<running, sent, mut_sent, handled, applied, last>>
    /\ UnchangedLoops

\* One iteration of the loop that finds the flag set and a message queued.
Receives(type) ==
    /\ pc = "loop"
    /\ running
    /\ mailbox # <<>>
    /\ recv(mailbox).msg.type = type

\* The end of a New/Swap/Remove arm: one of the states recompile can leave.
Mutated(outcomes) ==
    /\ \E r \in outcomes :
        /\ Become(r.st)
        /\ IF r.tag = "Panic" THEN Unwind
           ELSE pc' = pc /\ mailbox' = recv(mailbox).rest /\ UNCHANGED tasks
    /\ handled' = handled + 1
    /\ applied' = applied + 1
    /\ last' = Taken(recv(mailbox).msg)
    /\ UNCHANGED <<running, sent, mut_sent>>
    /\ UnchangedLoops

RecvNew ==
    /\ Receives("New")
    /\ Mutated(new_arm(Self, recv(mailbox).msg.module[1]))

RecvSwap ==
    /\ Receives("Swap")
    /\ Mutated(swap_arm(Self, recv(mailbox).msg.path, recv(mailbox).msg.module[1]))

RecvRemove ==
    /\ Receives("Remove")
    /\ Mutated(remove_arm(Self, recv(mailbox).msg.path))

\* respond_to.send(self.execute_route(request, addr)).unwrap()
RecvExecuteRoute ==
    /\ Receives("ExecuteRoute")
    /\ LET msg == recv(mailbox).msg
       IN  \E mode \in WXModes : \E o \in execute_route(Self, msg.request[1], mode) :
            /\ Become(o.st)
            /\ IF o.tag = "Panic" \/ tasks[msg.seq].state = "dropped"
               THEN Unwind
               ELSE /\ pc' = pc
                    /\ mailbox' = recv(mailbox).rest
                    /\ tasks' = [tasks EXCEPT ![msg.seq] =
                                    [state |-> "done", status |-> o.response[1].status]]
    /\ handled' = handled + 1
    /\ last' = Taken(recv(mailbox).msg)
    /\ UNCHANGED <<running, sent, mut_sent, applied>>
    /\ UnchangedLoops

\* A loop that leaves only once no message is queued
Exit_when_idle ==
    /\ pc = "loop"
    /\ ~running
    /\ mailbox = <<>>
    /\ pc' = "stopped"
    /\ tasks' = Disconnected(tasks)
    /\ UNCHANGED <<running, source_modules, runtimes, routes, next_host, mailbox,
                   sent, mut_sent, handled, applied, last>>
    /\ UnchangedLoops

\* The loop finds the flag cleared and breaks; run returns and the runtime
\* is dropped.
Exit ==
    /\ pc = "loop"
    /\ ~running
    /\ pc' = "stopped"
    /\ mailbox' = <<>>
    /\ tasks' = Disconnected(tasks)
    /\ UNCHANGED <<running, source_modules, runtimes, routes, next_host,
                   sent, mut_sent, handled, applied, last>>
    /\ UnchangedLoops

\* main.rs register_ctrlc: running.store(false)
Shutdown ==
    /\ running
    /\ running' = FALSE
    /\ UNCHANGED <<pc, source_modules, runtimes, routes, next_host,
                   mailbox, tasks, sent, mut_sent, handled, applied, last>>
    /\ UnchangedLoops

UnchangedRuntime == UNCHANGED <<pc, running, source_modules, runtimes, routes, next_host>>

\* rt_tx.send(msg) of a New/Swap/Remove message by the file watcher: queued
\* while the Receiver exists, an error otherwise.
SendMutation(msg) ==
    /\ watcher_pc = "watching"
    /\ sent < budget
    /\ sent' = sent + 1
    /\ IF Connected
       THEN mailbox' = Append(mailbox, msg) /\ mut_sent' = mut_sent + 1
       ELSE UNCHANGED <<mailbox, mut_sent>>
    /\ UNCHANGED <<tasks, handled, applied, last>>
    /\ UnchangedRuntime
    /\ UnchangedLoops

\* filewatcher.rs: a Create event whose file parses
SendNew ==
    \E m \in Modules : SendMutation(Msg("New", m.path, Some(m), None))

\* filewatcher.rs: a Modify event whose file parses
SendSwap ==
    \E m \in Modules : SendMutation(Msg("Swap", m.path, Some(m), None))

\* filewatcher.rs: a Remove event
SendRemove ==
    \E p \in ModulePaths : SendMutation(Msg("Remove", p, None, None))

\* server.rs WXSvc::call: send ExecuteRoute with a fresh one-shot reply
\* channel; a failed send completes the task with a runtime error.
SendExecuteRoute ==
    /\ server_pc = "accepting"
    /\ sent < budget
    /\ sent' = sent + 1
    /\ \E req \in Requests :
        IF Connected
        THEN /\ mailbox' = Append(mailbox, Msg("ExecuteRoute", "", None, Some(req)))
             /\ tasks' = [tasks EXCEPT ![sent + 1] = [state |-> "waiting", status |-> 0]]
        ELSE /\ UNCHANGED mailbox
             /\ tasks' = [tasks EXCEPT ![sent + 1] = [state |-> "failed", status |-> 500]]
    /\ UNCHANGED <<mut_sent, handled, applied, last>>
    /\ UnchangedRuntime
    /\ UnchangedLoops

\* The connection goes away while the task awaits the reply: the future and
\* with it the reply Receiver is dropped.
DropReceiver ==
    /\ \E s \in DOMAIN tasks :
        /\ tasks[s].state = "waiting"
        /\ tasks' = [tasks EXCEPT ![s].state = "dropped"]
    /\ UNCHANGED <<mailbox, sent, mut_sent, handled, applied, last>>
    /\ UnchangedRuntime
    /\ UnchangedLoops

Next ==
    \/ LoadModules
    \/ RunRecompile
    \/ RecvNew
    \/ RecvSwap
    \/ RecvRemove
    \/ RecvExecuteRoute
    \/ Exit
    \/ Shutdown
    \/ SendNew
    \/ SendSwap
    \/ SendRemove
    \/ SendExecuteRoute
    \/ DropReceiver

Spec == Init /\ [][Next]_vars

TypeOK ==
    /\ pc \in {"new", "loaded", "loop", "stopped", "panicked"}
    /\ running \in BOOLEAN
    /\ DOMAIN runtimes \subseteq ModulePaths
    /\ sent \in 0..MaxSends

(***************************************************************************)
(* Scheduling: the actor thread keeps running its loop (recv_timeout       *)
(* returns at the latest after timeout_duration), so a step of the actor   *)
(* that stays possible is eventually taken.                                *)
(***************************************************************************)
ActorStep ==
    \/ LoadModules
    \/ RunRecompile
    \/ RecvNew
    \/ RecvSwap
    \/ RecvRemove
    \/ RecvExecuteRoute
    \/ Exit

FairInit == InitWith(MaxFairSends, {None})

FairSpec == FairInit /\ [][Next]_vars /\ WF_vars(ActorStep)

(***************************************************************************)
(* The loops of the server and of the file watcher                         *)
(***************************************************************************)
\* runtime.shutdown_background(): the tasks of the server's tokio runtime are
\* dropped, and with them the reply Receivers they await.
shutdown_background(ts) ==
    [s \in DOMAIN ts |->
        IF ts[s].state = "waiting" THEN [ts[s] EXCEPT !.state = "dropped"] ELSE ts[s]]

\* server.rs run_async: the accept loop finds the flag cleared and returns;
\* accept is bounded by timeout_duration, so the flag is read again.
ServerExit ==
    /\ server_pc = "accepting"
    /\ ~running
    /\ server_pc' = "returned"
    /\ tasks' = shutdown_background(tasks)
    /\ UNCHANGED <<mailbox, sent, mut_sent, handled, applied, last>>
    /\ UnchangedRuntime
    /\ UNCHANGED <<watcher_pc, budget, input, output, now, last_event, observed,
                runner_pc, exit_code>>

\* filewatcher.rs run: the loop sleeps timeout_duration, finds the flag
\* cleared and breaks; the watcher is dropped with the function's frame.
WatcherExit ==
    /\ watcher_pc = "watching"
    /\ ~running
    /\ watcher_pc' = "returned"
    /\ UNCHANGED <<mailbox, tasks, sent, mut_sent, handled, applied, last>>
    /\ UnchangedRuntime
    /\ UNCHANGED <<server_pc, budget, input, output, now, last_event, observed,
                runner_pc, exit_code>>

\* The three threads with their loop exits; each thread keeps running, so a
\* step of it that stays possible is eventually taken.
ShutdownNext ==
    \/ Next
    \/ ServerExit
    \/ WatcherExit

ShutdownSpec ==
    /\ FairInit
    /\ [][ShutdownNext]_vars
    /\ WF_vars(ActorStep)
    /\ WF_vars(ServerExit)
    /\ WF_vars(WatcherExit)

(***************************************************************************)
(* The analyser and recompile applied to a module set                      *)
(***************************************************************************)
UnchangedProgram ==
    UNCHANGED <<pc, running, source_modules, runtimes, routes, next_host,
                mailbox, tasks, sent, mut_sent, handled, applied, last,
                server_pc, watcher_pc, budget, input, now, last_event, observed,
                runner_pc, exit_code>>

Applied(fn, value) ==
    /\ output = None
    /\ output' = Some([fn |-> fn, value |-> value])
    /\ UnchangedProgram

VerifyModelRoutes ==
    /\ input # None
    /\ Applied("verify_model_routes", verify_model_routes(input[1]))

DetectCircularDependencies ==
    /\ input # None
    /\ Applied("detect_circular_dependencies",
               detect_circular_dependencies(construct_dependency_tree(input[1])))

\* The route map the actor serves when a hot reload changes the module set.
ServedRoutes ==
    (CHOOSE r \in from_modules(<<parse_webx_file("src/a.webx", "counter")>>) : TRUE).value

\* self.recompile() at the end of a New, Swap or Remove arm that has left
\* the module set `input`
Recompile ==
    /\ input # None
    /\ \E r \in recompile([Self EXCEPT !.source_modules = input[1],
                                        !.routes = ServedRoutes]) :
            Applied("recompile", r)

AnalysisInit == InitWith(0, {Some(project) : project \in AnalysedProjects})

AnalysisNext ==
    \/ VerifyModelRoutes
    \/ DetectCircularDependencies
    \/ Recompile

AnalysisSpec == AnalysisInit /\ [][AnalysisNext]_vars

(***************************************************************************)
(* matches and resolve applied to a route map and a request URI            *)
(***************************************************************************)
\* Flattened route paths as parse_url_path and combine produce them:
\*   /            /a           /(x: String)      /a/b        /a/(x: String)
\*   /(x: String)/(x: String)  /(x: String)/(y: String)      /a/*
\*   /a/(x: String)/(y: String)
UrlPaths ==
    {<<>>,
     <<Literal("a")>>,
     <<Parameter("x", "String")>>,
     <<Literal("a"), Literal("b")>>,
     <<Literal("a"), Parameter("x", "String")>>,
     <<Parameter("x", "String"), Parameter("x", "String")>>,
     <<Parameter("x", "String"), Parameter("y", "String")>>,
     <<Literal("a"), Regex("g0", "*")>>,
     <<Literal("a"), Parameter("x", "String"), Parameter("y", "String")>>}

\* The GET routes of a route map: one or two of the paths above.
RoutePathSets == {{p, q} : p \in UrlPaths, q \in UrlPaths}

\* Request URIs /, /a, /b, /a/b, /a/, /a/b/c, //a and /a//b, as
\* path.split('/') yields them.
RequestUris ==
    {<<"", "">>, <<"", "a">>, <<"", "b">>, <<"", "a", "b">>, <<"", "a", "">>,
     <<"", "a", "b", "c">>, <<"", "", "a">>, <<"", "a", "", "b">>}

\* A route map with a GET route of module src/a.webx under each path.
RouteMapOf(paths) ==
    [k \in {<<"GET", path>> : path \in paths} |->
        compile_route(WXRoute(WXInfoField("src/a.webx", 1), "GET", k[2], None, <<>>,
                              Some(WXBody("Tsx", "<p>r</p>")), <<>>),
                      "src/a.webx")]

Matches ==
    /\ input # None
    /\ \E path \in input[1].paths :
            Applied("matches", [self |-> path, result |-> matches(path, input[1].uri)])

\* Two calls of resolve, each on its own route map with the same contents.
Resolve ==
    /\ input # None
    /\ \E first \in resolve(RouteMapOf(input[1].paths), "GET", input[1].uri) :
       \E second \in resolve(RouteMapOf(input[1].paths), "GET", input[1].uri) :
            Applied("resolve", <<first, second>>)

\* resolve applied to the request and to another request of the same route
\* map: the results each call can return.
ResolveBoth ==
    /\ input # None
    /\ \E other \in RequestUris :
            Applied("resolve_both",
                    [other |-> other,
                     first |-> resolve(RouteMapOf(input[1].paths), "GET", input[1].uri),
                     second |-> resolve(RouteMapOf(input[1].paths), "GET", other)])

ResolveInit ==
    InitWith(0, {Some([paths |-> paths, uri |-> uri]) :
                    paths \in RoutePathSets, uri \in RequestUris})

ResolveNext ==
    \/ Resolve
    \/ Matches
    \/ ResolveBoth

ResolveSpec == ResolveInit /\ [][ResolveNext]_vars

(***************************************************************************)
(* The ExecuteRoute arm of the actor applied to requests on a project of   *)
(* one module with one route                                               *)
(***************************************************************************)
MaxRequests == 2

\* The handler calls a route of the module is written with:
\*   count(): n     id(n): m     id(out)     static("index.html")     missing()
\* where count and id are defined by the module's global script and missing
\* is defined nowhere.
HandlerCalls ==
    {WXRouteHandler("count", <<>>, Some("n")),
     WXRouteHandler("id", <<LitIdentifier("n")>>, Some("m")),
     WXRouteHandler("id", <<LitIdentifier("out")>>, None),
     WXRouteHandler("static", <<LitString("index.html")>>, None),
     WXRouteHandler("missing", <<>>, None)}

HandlerLists ==
    {<<>>} \cup {<<h>> : h \in HandlerCalls}
           \cup {<<g, h>> : g \in HandlerCalls, h \in HandlerCalls}

\* No body, a `( ... )` body and a `{ ... }` body.
Bodies == {None, Some(WXBody("Tsx", "<p>a</p>")), Some(WXBody("Ts", "return 1"))}

\*  global { let n = 0; function count() { return ++n }; function id(x) { return x } }
\*  get /a -> pre... body -> post...
PipelineModules ==
    {WXModule("src/a.webx",
        WXScope(WXROOT_PATH, <<>>,
            "let n = 0; function count() { return ++n }; function id(x) { return x }",
            <<WXRoute(WXInfoField("src/a.webx", 2), "GET", <<Literal("a")>>, None,
                      pre, body, post)>>,
            <<>>))
     : pre \in HandlerLists, body \in Bodies, post \in HandlerLists}

PipelineRequests ==
    {[method |-> "GET", uri |-> <<"", "a">>],
     [method |-> "GET", uri |-> <<"", "missing">>]}

\* WXRuntime::new
WXRuntime_new ==
    [source_modules |-> <<>>, runtimes |-> [k \in {} |-> JsRuntime_new(0)],
     routes |-> WXRouteMap_new, next_host |-> 1]

\* The requests answered so far, oldest first.
Answered == IF output = None THEN <<>> ELSE output[1].value

\* One ExecuteRoute message taken by the actor that load_modules and
\* recompile have started on the module: the request is answered on the
\* runtime the previous one left.
ExecuteRoute ==
    /\ input # None
    /\ Len(Answered) < MaxRequests
    /\ Answered # <<>> => Answered[Len(Answered)].outcome.tag # "Panic"
    /\ \E started \in recompile(load_modules(WXRuntime_new, <<input[1].module>>)) :
       \E req \in PipelineRequests :
            LET S == IF Answered = <<>> THEN started.st
                     ELSE Answered[Len(Answered)].outcome.st
            IN  \E o \in execute_route(S, req, input[1].mode) :
                    output' = Some([fn |-> "execute_route",
                                    value |-> Append(Answered,
                                        [request |-> req, before |-> S, outcome |-> o])])
    /\ UnchangedProgram

PipelineInit ==
    InitWith(0, {Some([module |-> module, mode |-> mode]) :
                    module \in PipelineModules, mode \in WXModes})

PipelineNext == ExecuteRoute

PipelineSpec == PipelineInit /\ [][PipelineNext]_vars

(***************************************************************************)
(* file/parser.rs: parse_webx_file on a file in a given state              *)
(***************************************************************************)
IoError(file) == [tag |-> "Err", kind |-> "IoError", file |-> file]

SyntaxError(file) == [tag |-> "Err", kind |-> "SyntaxError", file |-> file]

\* read_to_string(file) followed by parse_module: a file that cannot be read
\* ("unreadable": missing, a directory, not UTF-8) gives IoError, a text the
\* parser rejects ("broken") gives SyntaxError.
read_and_parse(file, content) ==
    CASE content = "unreadable" -> IoError(file)
      [] content = "broken" -> SyntaxError(file)
      [] OTHER -> Ok(parse_webx_file(file, content))

(***************************************************************************)
(* engine/filewatcher.rs: the callback of the file watcher                 *)
(***************************************************************************)
MaxEvents == 3

\* The clock runs in steps of half a window, up to one window and a half.
ClockStep == EPSILON \div 2

MaxTime == EPSILON + ClockStep

\* What a watched file holds when the callback reads it.
WatchedContents(p) ==
    IF p = "src/a.webx" THEN {"counter", "broken"} ELSE {"flat", "broken"}

UnchangedActor ==
    UNCHANGED <<pc, running, source_modules, runtimes, routes, next_host,
                tasks, handled, applied, last, server_pc, budget, input, output,
                runner_pc, exit_code>>

Tick ==
    /\ watcher_pc = "watching"
    /\ now < MaxTime
    /\ now' = now + ClockStep
    /\ UNCHANGED <<mailbox, sent, mut_sent, watcher_pc, last_event, observed>>
    /\ UnchangedActor

\* A send that puts the message in front of the queued ones
Send_to_front(type, path, module) ==
    IF Connected
    THEN /\ mailbox' = <<Msg(type, path, module, None)>> \o mailbox
         /\ sent' = sent + 1
         /\ mut_sent' = mut_sent + 1
    ELSE UNCHANGED <<mailbox, sent, mut_sent>>

\* rt_tx.send(msg) from the callback
Send(type, path, module) ==
    IF Connected
    THEN /\ mailbox' = Append(mailbox, Msg(type, path, module, None))
         /\ sent' = sent + 1
         /\ mut_sent' = mut_sent + 1
    ELSE UNCHANGED <<mailbox, sent, mut_sent>>

\* What the callback does with every Create, Modify and Remove event.
Observe(event, content, duplicate) ==
    /\ last_event' = event
    /\ observed' = Append(observed,
                        [event |-> event, content |-> content, duplicate |-> duplicate])
    /\ now' = now
    /\ UnchangedActor

\* Create and Modify arms that send the message whether or not the file parsed
Reparse_sending_anyway(kind, type, path, content) ==
    LET event == FSWEvent_new(kind, path, now)
        duplicate == is_duplicate(event, last_event)
        parsed == read_and_parse(path, content)
    IN  /\ watcher_pc = "watching"
        /\ Len(observed) < MaxEvents
        /\ IF ~duplicate
           THEN Send(type, path, IF parsed.tag = "Ok" THEN Some(parsed.value) ELSE None)
           ELSE UNCHANGED <<mailbox, sent, mut_sent>>
        /\ watcher_pc' = watcher_pc
        /\ Observe(event, content, duplicate)

\* The Create and Modify arms: parse the file unless the event is a
\* duplicate, send the module when it parsed, warn otherwise.
Reparse(kind, type, path, content) ==
    LET event == FSWEvent_new(kind, path, now)
        duplicate == is_duplicate(event, last_event)
        parsed == read_and_parse(path, content)
    IN  /\ watcher_pc = "watching"
        /\ Len(observed) < MaxEvents
        /\ IF ~duplicate /\ parsed.tag = "Ok"
           THEN Send(type, path, Some(parsed.value))
           ELSE UNCHANGED <<mailbox, sent, mut_sent>>
        /\ watcher_pc' = watcher_pc
        /\ Observe(event, content, duplicate)

OnCreate ==
    \E path \in ModulePaths : \E content \in WatchedContents(path) :
        Reparse("Create", "New", path, content)

OnModify ==
    \E path \in ModulePaths : \E content \in WatchedContents(path) :
        Reparse("Modify", "Swap", path, content)

\* The Remove arm: rt_tx.send(Remove(path)).unwrap() unless the event is a
\* duplicate; the file is gone and is not read.
OnRemove ==
    \E path \in ModulePaths :
        LET event == FSWEvent_new("Remove", path, now)
            duplicate == is_duplicate(event, last_event)
        IN  /\ watcher_pc = "watching"
            /\ Len(observed) < MaxEvents
            /\ IF duplicate THEN UNCHANGED <<mailbox, sent, mut_sent>>
               ELSE Send("Remove", path, None)
            /\ watcher_pc' = IF ~duplicate /\ ~Connected THEN "panicked" ELSE watcher_pc
            /\ Observe(event, "unreadable", duplicate)

\* The `_ => ()` arm: an event of another kind (Access, Other) is dropped and
\* last_event stays.
OnOther ==
    /\ watcher_pc = "watching"
    /\ Len(observed) < MaxEvents
    /\ observed' = Append(observed,
                        [event |-> FSWEvent_new("Access", "src/a.webx", now),
                         content |-> "counter", duplicate |-> FALSE])
    /\ UNCHANGED <<mailbox, sent, mut_sent, watcher_pc, last_event, now>>
    /\ UnchangedActor

WatcherInit == InitWith(0, {None})

WatcherNext ==
    \/ Tick
    \/ OnCreate
    \/ OnModify
    \/ OnRemove
    \/ OnOther

WatcherSpec == WatcherInit /\ [][WatcherNext]_vars

(***************************************************************************)
(* file/project.rs: load_modules on the files of a source directory        *)
(***************************************************************************)
ERROR_READ_WEBX_FILES == 1
ERROR_PARSE_IO == 4
ERROR_SYNTAX == 5

SourcePaths == {"src/a.webx", "src/b.webx", "src/c.webx"}

\* The source directories: what each path holds, "absent" for no such file.
SourceDirs == [SourcePaths -> {"flat", "broken", "unreadable", "absent"}]

\* locate_files: the .webx files of the directory, in the order read_dir
\* lists them (which the platform decides).
locate_files(dir) ==
    LET present == {p \in SourcePaths : dir[p] # "absent"}
    IN  {files \in [1..Cardinality(present) -> present] :
            \A i, j \in 1..Cardinality(present) : i # j => files[i] # files[j]}

\* load_modules after locate_files: the errors reported through error_code,
\* in order, and either the modules or the code the process exits with.
load_modules_from(files, dir) ==
    LET webx_modules == [i \in 1..Len(files) |-> read_and_parse(files[i], dir[files[i]])]
        errors == SelectSeq(webx_modules, LAMBDA m : m.tag = "Err")
        reported == [i \in 1..Len(errors) |->
                        [code |-> IF errors[i].kind = "SyntaxError"
                                  THEN ERROR_SYNTAX ELSE ERROR_PARSE_IO,
                         file |-> errors[i].file]]
    IN  IF errors # <<>>
        THEN [tag |-> "Exit", code |-> ERROR_READ_WEBX_FILES, reported |-> reported,
              modules |-> <<>>]
        ELSE [tag |-> "Ok", code |-> 0, reported |-> reported,
              modules |-> [i \in 1..Len(files) |-> webx_modules[i].value]]

LoadProjectModules ==
    /\ input # None
    /\ \E files \in locate_files(input[1]) :
            Applied("load_modules", load_modules_from(files, input[1]))

StartupInit == InitWith(0, {Some(dir) : dir \in SourceDirs})

StartupNext == LoadProjectModules

StartupSpec == StartupInit /\ [][StartupNext]_vars

(***************************************************************************)
(* runner.rs: run, from the return of load_modules to the running threads  *)
(***************************************************************************)
\* The module sets load_modules can return: files of distinct paths with any
\* of the analysed texts.
RunProjects ==
    {project \in AnalysedProjects :
        \A i, j \in 1..Len(project) : i # j => project[i].path # project[j].path}

\* The exit status of a process whose main thread panicked.
PANIC_EXIT_CODE == 101

\* exit_error(message, code): std::process::exit(code)
exit_error(code) ==
    /\ runner_pc' = "exited"
    /\ exit_code' = Some(code)

UnchangedThreads ==
    UNCHANGED <<pc, running, source_modules, runtimes, routes, next_host,
                mailbox, tasks, sent, mut_sent, handled, applied, last,
                server_pc, watcher_pc, budget, input, output, now, last_event, observed>>

\* analyse_module_deps(&webx_modules)
AnalyseModuleDeps ==
    /\ runner_pc = "loaded"
    /\ IF analyse_module_deps(input[1]).tag = "Err"
       THEN exit_error(analyse_module_deps(input[1]).code)
       ELSE runner_pc' = "deps" /\ UNCHANGED exit_code
    /\ UnchangedThreads

\* analyze_module_routes: exit_on_err(analyze_duplicate_routes(modules)), then
\* exit_on_err(analyze_invalid_routes(modules)).
analyze_module_routes(modules) ==
    IF analyze_duplicate_routes(modules).tag = "Err"
    THEN analyze_duplicate_routes(modules)
    ELSE analyze_invalid_routes(modules)

AnalyseModuleRoutes ==
    /\ runner_pc = "deps"
    /\ CASE analyze_module_routes(input[1]).tag = "Err" ->
                exit_error(analyze_module_routes(input[1]).code)
         [] analyze_module_routes(input[1]).tag = "Panic" ->
                exit_error(PANIC_EXIT_CODE)
         [] OTHER -> runner_pc' = "routes" /\ UNCHANGED exit_code
    /\ UnchangedThreads

\* The channel is created and the runtime is built on its Receiver:
\* WXRuntime::new(rt_rx, mode, info); runtime.load_modules(webx_modules).
SpawnRuntime ==
    /\ runner_pc = "routes"
    /\ pc = "new"
    /\ Become(load_modules(Self, input[1]))
    /\ pc' = "loaded"
    /\ runner_pc' = "spawned"
    /\ UNCHANGED <<running, exit_code, server_pc, watcher_pc, budget, input, output,
                   now, last_event, observed>>
    /\ UnchangedChannel

\* WXServer::run_async binds the TcpListener, once the runtime is started.
Listen ==
    /\ runner_pc = "spawned"
    /\ server_pc = "unbound"
    /\ server_pc' = "accepting"
    /\ UNCHANGED <<pc, running, source_modules, runtimes, routes, next_host,
                   mailbox, tasks, sent, mut_sent, handled, applied, last,
                   watcher_pc, budget, input, output, now, last_event, observed,
                   runner_pc, exit_code>>

RunInit == InitAt("loaded", "unbound", 1, {Some(project) : project \in RunProjects})

RunNext ==
    \/ AnalyseModuleDeps
    \/ AnalyseModuleRoutes
    \/ SpawnRuntime
    \/ Listen
    \/ RunRecompile
    \/ SendExecuteRoute
    \/ RecvExecuteRoute

RunSpec == RunInit /\ [][RunNext]_vars

(***************************************************************************)
(* file/parser.rs: parse_url_path and parse_scope on the statements of a   *)
(* source text                                                             *)
(***************************************************************************)
\* The segments of a written URL path, as the loop of parse_url_path meets
\* them: "/a", "/*", "/(x: String)" and a final "/".
PathTexts ==
    {<<"/">>, <<"/a">>, <<"/*">>, <<"/(x: String)">>, <<"/a", "/*">>, <<"/*", "/*">>}

\* The loop of parse_url_path from a position on, with regex_counter.
RECURSIVE parse_url_segments(_, _)
parse_url_segments(text, regex_counter) ==
    IF text = <<>> THEN <<>>
    ELSE CASE Head(text) = "/*" ->
                <<Regex("g" \o ToString(regex_counter), "*")>>
                    \o parse_url_segments(Tail(text), regex_counter + 1)
           [] Head(text) = "/(x: String)" ->
                <<Parameter("x", "String")>> \o parse_url_segments(Tail(text), regex_counter)
           [] Head(text) = "/a" ->
                <<Literal("a")>> \o parse_url_segments(Tail(text), regex_counter)
           [] Head(text) = "/" ->
                <<Literal("")>> \o parse_url_segments(Tail(text), regex_counter)

\* parse_url_path: the loop with regex_counter = 0, then the empty literals
\* are removed.
parse_url_path(text) ==
    SelectSeq(parse_url_segments(text, 0), LAMBDA seg : seg # Literal(""))

\* Statements of a source text: a global block, a route, a location with
\* one route inside.
GlobalStatement(ts) == [keyword |-> "global", path |-> <<>>, ts |-> ts, inner |-> <<>>]

RouteStatement(path) == [keyword |-> "get", path |-> path, ts |-> "", inner |-> <<>>]

LocationStatement(path, inner) ==
    [keyword |-> "location", path |-> path, ts |-> "", inner |-> inner]

Statements ==
    {GlobalStatement(ts) : ts \in {"let a = 1", "let b = 2"}}
    \cup {RouteStatement(path) : path \in PathTexts}
    \cup {LocationStatement(path, <<RouteStatement(inner)>>) :
            path \in PathTexts, inner \in PathTexts}

MaxStatements == 2

SourceTexts ==
    UNION {[1..n -> Statements] : n \in 0..MaxStatements}

\* parse_route for `get <path> (<p>page</p>)`
parse_route(file, line, text) ==
    WXRoute(WXInfoField(file, line), "GET", parse_url_path(text), None,
            <<>>, Some(WXBody("Tsx", "<p>page</p>")), <<>>)

\* The loop of parse_scope from statement i on.
RECURSIVE parse_scope_loop(_, _, _, _)
parse_scope_loop(file, statements, i, scope) ==
    IF i > Len(statements) THEN scope
    ELSE parse_scope_loop(file, statements, i + 1,
            CASE statements[i].keyword = "global" ->
                    [scope EXCEPT !.global_ts = statements[i].ts]
              [] statements[i].keyword = "get" ->
                    [scope EXCEPT !.routes =
                        Append(@, parse_route(file, i, statements[i].path))]
              [] statements[i].keyword = "location" ->
                    [scope EXCEPT !.scopes =
                        Append(@, parse_scope_loop(file, statements[i].inner, 1,
                                    WXScope(parse_url_path(statements[i].path),
                                            <<>>, "", <<>>, <<>>)))])

parse_scope(file, statements, path) ==
    parse_scope_loop(file, statements, 1, WXScope(path, <<>>, "", <<>>, <<>>))

\* parse_module
ParseModule ==
    /\ input # None
    /\ Applied("parse_module",
               WXModule("src/a.webx", parse_scope("src/a.webx", input[1], WXROOT_PATH)))

ParseInit == InitWith(0, {Some(text) : text \in SourceTexts})

ParseNext == ParseModule

ParseSpec == ParseInit /\ [][ParseNext]_vars

(***************************************************************************)
(* Properties of the runtime actor                                         *)
(***************************************************************************)
LoadedPaths == {source_modules[i].path : i \in 1..Len(source_modules)}

\* The step in which the actor takes a message of the given type.
Takes(type) == Receives(type) /\ handled' = handled + 1

TakenMsg == recv(mailbox).msg

AnalysisOk(modules) == verify_model_routes(modules).tag = "Ok"

\* C1: in every reachable state a script host is keyed by a module path if
\* and only if a module with that path is in the module set.
C1_HostIffModuleLoaded == DOMAIN runtimes = LoadedPaths

\* C2: every route of the compiled route map has a module path that is a key
\* of the script-host map and the path of a module in the live module set.
C2_RoutesReferToLiveHosts ==
    \A k \in DOMAIN routes :
        /\ routes[k].module_path \in DOMAIN runtimes
        /\ routes[k].module_path \in LoadedPaths

C4_FailedRecompileKeepsServing ==
    [][ /\ (\E t \in {"New", "Swap", "Remove"} : Takes(t))
            /\ ~AnalysisOk(source_modules')
            => routes' = routes /\ pc' = "loop"
        /\ Takes("ExecuteRoute")
            /\ ~AnalysisOk(source_modules)
            /\ tasks[TakenMsg.seq].state = "waiting"
            => pc' = "loop" /\ tasks'[TakenMsg.seq].state = "done" ]_vars

\* C5: taking Swap for module M leaves the script host of every other loaded
\* module the same instance with the same in-script state.
C5_SwapKeepsOtherHosts ==
    [][ Takes("Swap") =>
            \A N \in DOMAIN runtimes \ {TakenMsg.path} :
                N \in DOMAIN runtimes' /\ runtimes'[N] = runtimes[N] ]_vars

C5_Witness ==
    /\ last.type = "Swap"
    /\ \E N \in DOMAIN runtimes : N # last.path /\ runtimes[N].n > 0

\* C6: when Swap replaces a module whose path is loaded, the script host of
\* that path is still there afterwards, the same instance with the same
\* in-script state.
C6_SwapKeepsOwnHost ==
    [][ Takes("Swap") /\ TakenMsg.path \in DOMAIN runtimes /\ TakenMsg.path \in LoadedPaths
            => /\ TakenMsg.path \in DOMAIN runtimes'
               /\ runtimes'[TakenMsg.path] = runtimes[TakenMsg.path] ]_vars

\* C7: taking Swap(module) when no module with that path is loaded leaves the
\* module set, the script-host keys and the route map as taking New(module)
\* from the same state would.
C7_SwapAbsentIsNew ==
    [][ Takes("Swap") /\ TakenMsg.path \notin LoadedPaths
            => \E r \in new_arm(Self, TakenMsg.module[1]) :
                    /\ source_modules' = r.st.source_modules
                    /\ DOMAIN runtimes' = DOMAIN r.st.runtimes
                    /\ routes' = r.st.routes ]_vars

\* C8: after Remove(path) is taken no module has that path and no script host
\* is keyed by it, and the modules and hosts of all other paths are as before.
C8_RemoveDropsModuleAndHost ==
    [][ Takes("Remove") =>
            /\ \A i \in 1..Len(source_modules') : source_modules'[i].path # TakenMsg.path
            /\ TakenMsg.path \notin DOMAIN runtimes'
            /\ source_modules' =
                    SelectSeq(source_modules, LAMBDA m : m.path # TakenMsg.path)
            /\ DOMAIN runtimes' = DOMAIN runtimes \ {TakenMsg.path}
            /\ \A q \in DOMAIN runtimes' : runtimes'[q] = runtimes[q] ]_vars

C8_Witness ==
    /\ last.type = "Remove"
    /\ handled = 1
    /\ next_host = 3
    /\ Len(source_modules) = 1
    /\ Cardinality(DOMAIN runtimes) = 1
    /\ last.path \notin DOMAIN runtimes

\* C9: the actor takes messages one at a time in channel order: the message
\* it takes was sent before every message still queued, and an ExecuteRoute is
\* taken when the actor has applied exactly the New/Swap/Remove messages that
\* were queued before it.
C9_MessagesInChannelOrder ==
    [][ handled' = handled + 1 =>
            /\ last'.seq > last.seq
            /\ \A i \in 1..Len(mailbox') : mailbox'[i].seq > last'.seq
            /\ \A i \in 1..Len(mailbox) : mailbox[i].seq >= last'.seq
            /\ last'.type = "ExecuteRoute" =>
                    /\ applied = last'.mut_before
                    /\ routes' = routes ]_vars

C9_Witness ==
    /\ last.type = "ExecuteRoute"
    /\ last.mut_before = 2
    /\ applied = 2
    /\ tasks[last.seq].state = "done"

\* C10: when an ExecuteRoute resolves to a route whose module has no script
\* host, the actor replies with a 500 error on the reply channel and stays in
\* its loop.
C10_MissingHostIs500 ==
    [][ /\ Takes("ExecuteRoute")
        /\ tasks[TakenMsg.seq].state = "waiting"
        /\ \A m \in resolve(routes, TakenMsg.request[1].method, TakenMsg.request[1].uri) :
                m.tag = "Some" /\ m.route[1].module_path \notin DOMAIN runtimes
        => /\ pc' = "loop"
           /\ tasks'[TakenMsg.seq] = [state |-> "done", status |-> 500] ]_vars

\* C11: a per-request task does not wait forever for the actor: every task
\* eventually stops waiting for the reply for good; once the actor has
\* stopped no task waits, and a task whose send failed or whose reply sender
\* was dropped has completed with a runtime error of code 500.
C11_TaskNeverWaitsForever ==
    /\ \A s \in 1..MaxSends : <>[](tasks[s].state # "waiting")
    /\ [](\A s \in 1..MaxSends :
            /\ tasks[s].state = "failed" => tasks[s].status = 500
            /\ ~Connected => tasks[s].state # "waiting")

C11_Witness ==
    /\ pc = "stopped"
    /\ handled > 0
    /\ \E s \in 1..MaxSends : tasks[s] = [state |-> "failed", status |-> 500]

Returned(fn) == output # None /\ output[1].fn = fn

\* The route declarations of a module set with their flattened paths.
DeclaredRoutes(modules) ==
    Concat([i \in 1..Len(modules) |-> flatten_scopes(modules[i].scope, WXROOT_PATH)])

HasDuplicateDeclaration(modules) ==
    \E i, j \in 1..Len(DeclaredRoutes(modules)) :
        /\ i # j
        /\ DeclaredRoutes(modules)[i].route.method = DeclaredRoutes(modules)[j].route.method
        /\ DeclaredRoutes(modules)[i].flat_path = DeclaredRoutes(modules)[j].flat_path

\* The method/body rule for one route.
FollowsBodyRule(route) ==
    /\ route.method \in {"GET", "DELETE"} => route.body_format = None
    /\ route.method \in {"POST", "PUT"} => route.body_format # None

\* C13: when two route declarations of the analysed module set have the same
\* method and the same flattened path, analysis fails with the duplicate-route
\* error (code 6); on success the (method, flattened path) keys are pairwise
\* distinct.
C13_DuplicatesRejected ==
    Returned("verify_model_routes") =>
        /\ HasDuplicateDeclaration(input[1]) =>
                /\ output[1].value.tag = "Err"
                /\ output[1].value.code = ERROR_DUPLICATE_ROUTE
        /\ output[1].value.tag = "Ok" =>
                \A k1, k2 \in DOMAIN output[1].value.value :
                    k1 # k2 =>
                        <<output[1].value.value[k1].route.method,
                          output[1].value.value[k1].flat_path>>
                        # <<output[1].value.value[k2].route.method,
                            output[1].value.value[k2].flat_path>>

C15_InvalidRouteIsErrorValue ==
    ( /\ Returned("recompile")
      /\ analyze_duplicate_routes(input[1]).tag = "Ok"
      /\ \E i \in 1..Len(DeclaredRoutes(input[1])) :
            ~FollowsBodyRule(DeclaredRoutes(input[1])[i].route) )
    => /\ output[1].value.tag # "Panic"
       /\ output[1].value.st.routes = ServedRoutes
       /\ \A v \in from_modules(input[1]) : v.tag = "Err" /\ v.code = ERROR_INVALID_ROUTE

\* The include graph of a module set, each include string resolved relative
\* to the directory of the including module: pairs <<including file, target>>.
IncludeEdges(modules) ==
    UNION {{<<PathBuf_from(modules[i].path),
              join(SubSeq(PathBuf_from(modules[i].path), 1,
                          Len(PathBuf_from(modules[i].path)) - 1),
                   PathBuf_from(modules[i].scope.includes[j]))>>
            : j \in 1..Len(modules[i].scope.includes)}
           : i \in 1..Len(modules)}

\* The pairs joined by a path of at most n + 1 edges.
RECURSIVE Paths(_, _, _)
Paths(reached, edges, n) ==
    IF n = 0 THEN reached
    ELSE Paths(reached \cup UNION {{<<x[1], y[2]>> : y \in {e \in edges : e[1] = x[2]}}
                                   : x \in reached},
               edges, n - 1)

HasIncludeCycle(modules) ==
    \E e \in Paths(IncludeEdges(modules), IncludeEdges(modules),
                   Cardinality(IncludeEdges(modules))) : e[1] = e[2]

\* C16: the include-cycle check reports an error whenever the include graph,
\* with includes resolved relative to the including module's directory, has a
\* cycle, and the nodes it reports are exactly those that are both an include
\* target and an including module.
C16_IncludeCyclesReported ==
    Returned("detect_circular_dependencies") =>
        /\ HasIncludeCycle(input[1]) => output[1].value # {}
        /\ output[1].value =
                {e[1] : e \in IncludeEdges(input[1])}
                    \cap {e[2] : e \in IncludeEdges(input[1])}

\* C17: during hot reload, a module set whose includes form a cycle (one the
\* include-cycle check itself reports) is rejected: the previous route map is
\* kept.
C17_IncludeCycleRejectedOnReload ==
    (Returned("recompile") /\ analyse_module_deps(input[1]).tag = "Err")
        => /\ output[1].value.tag # "Panic"
           /\ output[1].value.st.routes = ServedRoutes

(***************************************************************************)
(* Properties of matches and resolve                                       *)
(***************************************************************************)
\* C18: resolve is deterministic: for the same method and URI, two route maps
\* with equal contents give the same matched path, bindings and route.
C18_ResolveDeterministic ==
    Returned("resolve") => output[1].value[1] = output[1].value[2]

\* C19: when resolve returns a perfect match, the names bound in the returned
\* context are the names of the Parameter and Regex segments of the matched
\* pattern, each bound to the request token at the segment's position.
C19_PerfectMatchBindsSegmentNames ==
    Returned("resolve") =>
        \A n \in 1..2 :
            ( /\ output[1].value[n].tag = "Some"
              /\ segments(output[1].value[n].path)
                    = Len(get_url_segments(input[1].uri)) )
            => /\ DOMAIN output[1].value[n].ctx =
                    {output[1].value[n].path[i].name :
                        i \in {j \in 1..Len(output[1].value[n].path) :
                                output[1].value[n].path[j].kind
                                    \in {"Parameter", "Regex"}}}
               /\ \A i \in 1..Len(output[1].value[n].path) :
                    output[1].value[n].path[i].kind \in {"Parameter", "Regex"}
                        => output[1].value[n].ctx[output[1].value[n].path[i].name]
                            = WXRTString(get_url_segments(input[1].uri)[i])

\* Whether a segment accepts a token.
Accepts(segment, token) ==
    CASE segment.kind = "Literal" -> segment.name = token
      [] segment.kind = "Parameter" -> TRUE
      [] segment.kind = "Regex" ->
            Regex_new(segment.arg).tag = "Ok" /\ is_match(segment.arg, token)

\* C20: matches returns Partial only when the pattern has exactly one segment
\* more than the request has tokens and every segment matches, the trailing
\* one matching the empty token; a pattern with two or more segments beyond
\* the request never matches, nor does a pattern shorter than the request.
C20_PartialIsOneExtraSegment ==
    Returned("matches") =>
        LET self == output[1].value.self
            url == get_url_segments(input[1].uri)
            kind == output[1].value.result.kind
        IN  /\ kind = "Partial" =>
                    /\ segments(self) = Len(url) + 1
                    /\ \A i \in 1..Len(url) : Accepts(self[i], url[i])
                    /\ Accepts(self[segments(self)], "")
            /\ segments(self) >= Len(url) + 2 => kind \notin {"Perfect", "Partial"}
            /\ segments(self) < Len(url) => kind = "None"

C20_Witness ==
    /\ Returned("matches")
    /\ output[1].value.result.kind = "Partial"
    /\ segments(output[1].value.self) = 2
    /\ get_url_segments(input[1].uri) = <<"a">>

(***************************************************************************)
(* Properties of the route pipeline and of the responses                   *)
(***************************************************************************)
\* The answered requests that resolved to a route and ran its pipeline.
Ran == {i \in 1..Len(Answered) : Answered[i].outcome.route # None}

RouteOf(i) == Answered[i].outcome.route[1].route

ResultOf(i) == Answered[i].outcome.route[1].result

LastStep(i) == ResultOf(i).log[Len(ResultOf(i).log)]

\* The steps a route declares, in the order pre-handlers, body, post-handlers
\* (the body as None).
DeclaredSteps(route) ==
    [i \in 1..Len(route.pre_handlers) |-> Some(route.pre_handlers[i])]
        \o (IF route.body # None THEN <<None>> ELSE <<>>)
        \o [i \in 1..Len(route.post_handlers) |-> Some(route.post_handlers[i])]

StepsOf(log) == [i \in 1..Len(log) |-> log[i].handler]

IsPrefix(a, b) == Len(a) <= Len(b) /\ SubSeq(b, 1, Len(a)) = a

C22_PipelineOrderAndBinding ==
    \A i \in Ran :
        LET log == ResultOf(i).log
        IN  /\ IsPrefix(StepsOf(log), DeclaredSteps(RouteOf(i)))
            /\ ResultOf(i).tag = "Ok" => StepsOf(log) = DeclaredSteps(RouteOf(i))
            /\ \A k \in 1..(Len(log) - 1) :
                    (log[k].step = "handler" /\ log[k].handler[1].output # None)
                        => /\ log[k].handler[1].output[1] \in DOMAIN log[k + 1].ctx
                           /\ log[k + 1].ctx[log[k].handler[1].output[1]]
                                = log[k].res.value

C22_Witness ==
    \E i \in Ran :
        /\ ResultOf(i).tag = "Ok"
        /\ Len(ResultOf(i).log) = 4
        /\ RouteOf(i).pre_handlers
                = <<WXRouteHandler("count", <<>>, Some("n")),
                    WXRouteHandler("id", <<LitIdentifier("n")>>, Some("m"))>>
        /\ ResultOf(i).log[3].step = "body"
        /\ ResultOf(i).log[4].handler[1].name = "id"
        /\ ResultOf(i).log[4].res.value = WXRTNumber(1)

\* C23: when a route has a body block, the value of the body is bound under
\* the name `out` in the context the steps after the body run in, so a
\* post-handler can take `out` as an argument.
C23_BodyBoundAsOut ==
    \A i \in Ran :
        LET log == ResultOf(i).log
        IN  \A k \in 1..(Len(log) - 1) :
                log[k].step = "body"
                    => /\ "out" \in DOMAIN log[k + 1].ctx
                       /\ log[k + 1].ctx["out"] = log[k].res.value

\* C24: the kind of the response follows the kind of the final value: a
\* string gives an HTML response, any other value a JSON response.
C24_ResponseKindFollowsValue ==
    \A i \in Ran :
        ResultOf(i).tag = "Ok" =>
            Answered[i].outcome.response[1].content_type =
                IF LastStep(i).res.value.type = "String"
                THEN "text/html; charset=utf-8"
                ELSE "application/json"

\* hyper::Uri as displayed in a page
Display(uri) ==
    CASE uri = <<"", "a">> -> "/a"
      [] uri = <<"", "missing">> -> "/missing"

\* The fragments of a body.
Fragments(body) == {body[k] : k \in 1..Len(body)}

\* C25: a request that matches no route is answered with status 404 and a
\* body that names the attempted method and URL, sent as a response and not as
\* a runtime error.
C25_NotFoundNamesRequest ==
    \A i \in 1..Len(Answered) :
        (Answered[i].outcome.route = None /\ Answered[i].outcome.tag = "Ok")
            => /\ Answered[i].outcome.response # None
               /\ Answered[i].outcome.response[1].status = 404
               /\ Answered[i].request.method
                    \in Fragments(Answered[i].outcome.response[1].body)
               /\ Display(Answered[i].request.uri)
                    \in Fragments(Answered[i].outcome.response[1].body)

\* The number of calls of count among the steps.
CountCalls(log) ==
    Cardinality({k \in 1..Len(log) :
                    log[k].step = "handler" /\ log[k].handler[1].name = "count"})

Parses(content) == content \notin {"broken", "unreadable"}

\* Whether the watcher let an observed event through and had something to
\* send for it.
Delivers(o) ==
    /\ o.event.kind \in {"Create", "Modify", "Remove"}
    /\ ~o.duplicate
    /\ o.event.kind = "Remove" \/ Parses(o.content)

\* The message an observed event stands for, as <<type, path, module>>.
MessageFor(o) ==
    CASE o.event.kind = "Create" ->
            <<"New", o.event.path, Some(parse_webx_file(o.event.path, o.content))>>
      [] o.event.kind = "Modify" ->
            <<"Swap", o.event.path, Some(parse_webx_file(o.event.path, o.content))>>
      [] o.event.kind = "Remove" -> <<"Remove", o.event.path, None>>

\* C27: for every non-suppressed file event whose file parses the watcher
\* sends exactly one message, New for Create and Swap for Modify, and for a
\* non-suppressed Remove it sends Remove(path) without parsing; the messages
\* are queued in the order the events were observed.
C27_OneMessagePerEventInOrder ==
    LET delivered == SelectSeq(observed, Delivers)
    IN  [i \in 1..Len(mailbox) |-> <<mailbox[i].type, mailbox[i].path, mailbox[i].module>>]
            = [i \in 1..Len(delivered) |-> MessageFor(delivered[i])]

C27_Witness ==
    /\ Len(observed) = 3
    /\ Len(mailbox) = 3
    /\ mailbox[1].type = "New"
    /\ mailbox[2].type = "Swap"
    /\ mailbox[3].type = "Remove"
    /\ mailbox[1].path = "src/a.webx"
    /\ mailbox[3].path = "src/a.webx"

\* C28: when the file of a Create or Modify event does not parse, the watcher
\* sends nothing, and the module set, the script hosts and the route map stay
\* as they are.
C28_ParseFailureSendsNothing ==
    [][ ( /\ Len(observed') = Len(observed) + 1
          /\ observed'[Len(observed')].event.kind \in {"Create", "Modify"}
          /\ ~Parses(observed'[Len(observed')].content) )
        => /\ mailbox' = mailbox
           /\ UNCHANGED <<source_modules, runtimes, routes>> ]_vars

C28_Witness ==
    /\ Len(observed) = 2
    /\ observed[1].event.kind = "Create"
    /\ Parses(observed[1].content)
    /\ observed[2].event.kind = "Modify"
    /\ observed[2].event.path = observed[1].event.path
    /\ ~Parses(observed[2].content)
    /\ ~observed[2].duplicate
    /\ Len(mailbox) = 1

\* C29: of several events with the same kind and the same path within 100 ms
\* only the first produces a message, also when events for other paths or
\* kinds are observed in between.
C29_CoalescedPerKindAndPath ==
    \A i, j \in 1..Len(observed) :
        ( /\ i < j
          /\ observed[i].event.kind \in {"Create", "Modify", "Remove"}
          /\ observed[j].event.kind = observed[i].event.kind
          /\ observed[j].event.path = observed[i].event.path
          /\ observed[j].event.timestamp - observed[i].event.timestamp < 100 )
        => ~Delivers(observed[j])

(***************************************************************************)
(* Properties of loading the project at startup                            *)
(***************************************************************************)
\* The files of a directory that fail to load with the given content.
Failing(dir, content) == {p \in SourcePaths : dir[p] = content}

\* C30: at startup, when at least one module file fails to load, every
\* failure of the batch is reported and the process exits with code 4 when
\* the failures are file-read errors and with code 5 when they are syntax
\* errors.
C30_LoadFailureExitCodes ==
    (Returned("load_modules")
        /\ Failing(input[1], "unreadable") \cup Failing(input[1], "broken") # {})
    => LET result == output[1].value
       IN  /\ result.tag = "Exit"
           /\ {result.reported[i].file : i \in 1..Len(result.reported)}
                = Failing(input[1], "unreadable") \cup Failing(input[1], "broken")
           /\ Failing(input[1], "broken") = {} => result.code = 4
           /\ Failing(input[1], "unreadable") = {} => result.code = 5

(***************************************************************************)
(* Properties of the startup sequence                                      *)
(***************************************************************************)
\* C31: when two modules of the project declare the same route, startup never
\* gets past the route analysis: the process exits with code 6, no TCP
\* listener is opened and no request is answered.
C31_DuplicateRoutesStopStartup ==
    (input # None /\ HasDuplicateDeclaration(input[1]))
    => /\ runner_pc \in {"loaded", "deps", "exited"}
       /\ runner_pc = "exited" => exit_code = Some(ERROR_DUPLICATE_ROUTE)
       /\ server_pc = "unbound"
       /\ \A t \in DOMAIN tasks : tasks[t].state # "done"

(***************************************************************************)
(* Properties of the parser                                                *)
(***************************************************************************)
\* The names of the Regex segments of a path, in order.
RegexNames(path) ==
    [i \in 1..Len(SelectSeq(path, LAMBDA seg : seg.kind = "Regex")) |->
        SelectSeq(path, LAMBDA seg : seg.kind = "Regex")[i].name]

NoRepeatedName(path) ==
    \A i, j \in 1..Len(RegexNames(path)) :
        i # j => RegexNames(path)[i] # RegexNames(path)[j]

\* The paths the parser produced for a scope and the scopes inside it.
RECURSIVE ParsedPaths(_)
ParsedPaths(scope) ==
    {scope.path} \cup {scope.routes[i].path : i \in 1..Len(scope.routes)}
    \cup UNION {ParsedPaths(scope.scopes[i]) : i \in 1..Len(scope.scopes)}

\* C32: in every path the parser produces the Regex segments are named g0,
\* g1, ... from g0 on, and no path used as a route key, a location prefix
\* combined with the route's own path included, has two Regex segments of
\* the same name.
C32_RegexNamesUniquePerPath ==
    Returned("parse_module")
    => /\ \A path \in ParsedPaths(output[1].value.scope) :
            RegexNames(path) = [i \in 1..Len(RegexNames(path)) |-> "g" \o ToString(i - 1)]
       /\ \A i \in 1..Len(DeclaredRoutes(<<output[1].value>>)) :
            NoRepeatedName(DeclaredRoutes(<<output[1].value>>)[i].flat_path)

\* The texts of the global blocks of a source text, in source order.
GlobalBlocks(statements) ==
    [i \in 1..Len(SelectSeq(statements, LAMBDA st : st.keyword = "global")) |->
        SelectSeq(statements, LAMBDA st : st.keyword = "global")[i].ts]

\* Whether the texts occur in s in the given order.
RECURSIVE ContainsInOrder(_, _)
ContainsInOrder(s, texts) ==
    \/ texts = <<>>
    \/ /\ s # <<>>
       /\ \/ Head(s) = Head(texts) /\ ContainsInOrder(Tail(s), Tail(texts))
          \/ ContainsInOrder(Tail(s), texts)

\* The texts joined into one, with a separator between them.
RECURSIVE JoinTexts(_, _)
JoinTexts(texts, sep) ==
    IF texts = <<>> THEN ""
    ELSE IF Len(texts) = 1 THEN texts[1]
    ELSE texts[1] \o sep \o JoinTexts(Tail(texts), sep)

\* C33: after a scope with several global blocks is parsed, its script text
\* holds the contents of all of them in source order.
C33_GlobalBlocksConcatenated ==
    Returned("parse_module")
    => \E parts \in UNION {[1..n -> {"let a = 1", "let b = 2"}] : n \in 0..MaxStatements} :
       \E sep \in {"", "\n"} :
        /\ output[1].value.scope.global_ts = JoinTexts(parts, sep)
        /\ ContainsInOrder(parts, GlobalBlocks(input[1]))

(***************************************************************************)
(* Properties of resolve and of the request path                           *)
(***************************************************************************)
\* The patterns of the route map under analysis that match the request
\* with the given kind.
MatchingAs(kind) ==
    {p \in input[1].paths : matches(p, input[1].uri).kind = kind}

\* C34: whenever at least one pattern of the method matches the request
\* perfectly, resolve returns a perfect match, also when other patterns
\* match partially; a partial match is returned only when no pattern matches
\* perfectly.
C34_PerfectBeatsPartial ==
    Returned("resolve")
    => \A k \in 1..2 :
        /\ MatchingAs("Perfect") # {}
            => /\ output[1].value[k].tag = "Some"
               /\ output[1].value[k].path \in MatchingAs("Perfect")
        /\ ( /\ output[1].value[k].tag = "Some"
             /\ output[1].value[k].path \in MatchingAs("Partial") )
            => MatchingAs("Perfect") = {}

\* The tokens of a request path between its slashes.
Tokens(uri) == SelectSeq(uri, LAMBDA s : s # "")

\* C35: two request URIs that differ only in repeated or trailing slashes
\* resolve to the same route with the same bindings, and the empty UrlPath
\* matches the request path "/" perfectly.
C35_SlashesDoNotMatter ==
    /\ ( /\ Returned("resolve_both")
         /\ Tokens(output[1].value.other) = Tokens(input[1].uri) )
        => output[1].value.first = output[1].value.second
    /\ ( /\ Returned("matches")
         /\ output[1].value.self = <<>>
         /\ input[1].uri = <<"", "">> )
        => output[1].value.result.kind = "Perfect"

C35_Witness ==
    /\ Returned("resolve_both")
    /\ input[1].uri = <<"", "a", "b">>
    /\ output[1].value.other = <<"", "a", "", "b">>
    /\ \E r \in output[1].value.second :
            /\ r.tag = "Some"
            /\ r.path = <<Literal("a"), Parameter("x", "String")>>
            /\ r.ctx = bind(WXRTContext_new, "x", WXRTString("b"))

\* C36: the actor compiles the route map from the startup modules before it
\* takes its first mailbox message: a message taken before any New, Swap or
\* Remove was applied finds the actor in its loop with a route map compiled
\* from the startup modules, which is not the initial empty map when those
\* modules declare routes.
C36_CompiledBeforeFirstMessage ==
    [][ (handled' = handled + 1 /\ applied = 0)
            => /\ pc = "loop"
               /\ Ok(routes) \in from_modules(source_modules)
               /\ DOMAIN extract_flat_routes(source_modules) # {}
                    => routes # WXRouteMap_new ]_vars

C36_Witness ==
    /\ handled = 1
    /\ applied = 0
    /\ last.type = "ExecuteRoute"
    /\ routes # WXRouteMap_new
    /\ tasks[last.seq] = [state |-> "done", status |-> 200]

\* C37: the module set holds at most one module per path, whatever New, Swap
\* and Remove messages the actor has taken; a New for a loaded path does not
\* leave two modules with that path.
C37_OneModulePerPath ==
    \A i, j \in 1..Len(source_modules) :
        i # j => source_modules[i].path # source_modules[j].path

\* C38: after Remove(p) no ExecuteRoute resolves to a route declared in
\* module p until p is added again, whether the recompile that followed the
\* Remove succeeded or failed.  (A path leaves the module set only through
\* Remove, so until it is added again it is not the path of a loaded module.)
C38_RemovedModuleNotResolved ==
    [][ Takes("ExecuteRoute")
            => \A m \in resolve(routes, TakenMsg.request[1].method,
                                TakenMsg.request[1].uri) :
                    m.tag = "Some" => m.route[1].module_path \in LoadedPaths ]_vars

\* C39: when the reply receiver of a request was dropped before the actor
\* replies, the actor discards the reply and goes on with the next message:
\* the failed reply send does not stop the actor.  (Taken on requests that
\* resolve to no route, whose reply is the 404 page.)
C39_DroppedReceiverDoesNotStopActor ==
    [][ ( /\ Takes("ExecuteRoute")
          /\ tasks[TakenMsg.seq].state = "dropped"
          /\ \A m \in resolve(routes, TakenMsg.request[1].method,
                              TakenMsg.request[1].uri) : m.tag = "None" )
            => /\ pc' = "loop"
               /\ mailbox' = recv(mailbox).rest ]_vars

\* Whether the observed events k..j are a series: Create, Modify or Remove
\* events of one kind for one path, each with something to send (the file
\* parses), with no other event in between.
Series(k, j) ==
    /\ observed[k].event.kind \in {"Create", "Modify", "Remove"}
    /\ \A n \in k..j :
            /\ observed[n].event.kind = observed[k].event.kind
            /\ observed[n].event.path = observed[k].event.path
            /\ observed[n].event.kind = "Remove" \/ Parses(observed[n].content)

\* C40: in a series of events of the same kind for the same path, an event
\* is forwarded whenever at least 100 ms have passed since the last forwarded
\* event of the series; the duplicates suppressed in between do not extend
\* the window.
C40_WindowStartsAtLastForwarded ==
    \A k, j \in 1..Len(observed) :
        ( /\ k < j
          /\ Series(k, j)
          /\ Delivers(observed[k])
          /\ \A n \in (k + 1)..(j - 1) : ~Delivers(observed[n])
          /\ observed[j].event.timestamp - observed[k].event.timestamp >= 100 )
        => Delivers(observed[j])

====
